---- MODULE Spec2Model ----
(***************************************************************************)
(* jalBuddy query resolution pipeline: the INGRES data gateway             *)
(* (IngresService and the comprehensive endpoint), the LLM provider chain  *)
(* (LLMManager) and the knowledge retrievers (RAGService on Qdrant,        *)
(* ChromaRAGService), as state machines translated from the Python source. *)
(*                                                                         *)
(* Conventions.  A string the code transforms (district names, query       *)
(* texts) is a sequence of one-character strings, so that lower(), title() *)
(* and substring tests are computed; a string the code only passes along   *)
(* is a TLA+ string.  Python's None is the string "None".  Fractions       *)
(* (scores, confidences) are integers in hundredths.  Time is in seconds.  *)
(***************************************************************************)
EXTENDS Integers, Sequences, FiniteSets, TLC

VARIABLES
    initialized,    \* IngresService.initialized
    redis_client,   \* IngresService.redis_client: "None", "open" or "closed"
    http_client,    \* IngresService.http_client: "None", "open" or "closed"
    now,            \* wall clock, seconds
    cache,          \* the Redis store: cache key -> [text, exp]
    tasks,          \* the gateway coroutines in flight, by task slot
    calls,          \* number of gateway calls started so far
    log,            \* completed direct gateway calls, in completion order
    gather,         \* the comprehensive endpoint's request in progress
    llm,            \* the LLMManager: its clients and the generate_response call in progress
    rag,            \* the retriever service: its store, the operations done on it
    ai_service      \* app.state.ai_service: the AIService or the EnhancedAIService

gatewayVars == <<initialized, redis_client, http_client, now, cache, tasks, calls, log, gather>>

vars == <<initialized, redis_client, http_client, now, cache, tasks, calls, log, gather, llm, rag,
          ai_service>>

None == "None"

-----------------------------------------------------------------------------
(* Strings as character sequences: str.lower(), str.title().               *)

UpperAlpha == <<"A","B","C","D","E","F","G","H","I","J","K","L","M",
                "N","O","P","Q","R","S","T","U","V","W","X","Y","Z">>

LowerAlpha == <<"a","b","c","d","e","f","g","h","i","j","k","l","m",
                "n","o","p","q","r","s","t","u","v","w","x","y","z">>

IsUpper(c) == \E i \in 1..26 : UpperAlpha[i] = c

IsLower(c) == \E i \in 1..26 : LowerAlpha[i] = c

IsLetter(c) == IsUpper(c) \/ IsLower(c)

LowerChar(c) == IF IsUpper(c) THEN LowerAlpha[CHOOSE i \in 1..26 : UpperAlpha[i] = c] ELSE c

UpperChar(c) == IF IsLower(c) THEN UpperAlpha[CHOOSE i \in 1..26 : LowerAlpha[i] = c] ELSE c

Lower(s) == [i \in 1..Len(s) |-> LowerChar(s[i])]

Title(s) == [i \in 1..Len(s) |->
               IF i = 1 \/ ~IsLetter(s[IF i = 1 THEN 1 ELSE i - 1])
               THEN UpperChar(s[i]) ELSE LowerChar(s[i])]

-----------------------------------------------------------------------------
(* Settings and reference data.                                            *)

INGRES_CACHE_TTL == 3600

DISTRICTS_CACHE_TTL == 86400

USE_MOCK_INGRES == TRUE

CurrentYear == 2025

Str_nalanda == <<"n","a","l","a","n","d","a">>

Str_jalgaon == <<"j","a","l","g","a","o","n">>

Str_anantapur == <<"a","n","a","n","t","a","p","u","r">>

Str_Nalanda == <<"N","a","l","a","n","d","a">>

Str_Atlantis == <<"A","t","l","a","n","t","i","s">>

Str_post_monsoon == <<"p","o","s","t","_","m","o","n","s","o","o","n">>

Str_POST_MONSOON == <<"P","O","S","T","_","M","O","N","S","O","O","N">>

\* The characters of a season argument (seasons are passed around whole;
\* only the upstream's `season[:4]` and a comparison of case look inside).
SeasonText(season) ==
    IF season = "post_monsoon" THEN Str_post_monsoon
    ELSE IF season = "POST_MONSOON" THEN Str_POST_MONSOON
    ELSE <<>>

\* season[:4]
Prefix4(s) == SubSeq(s, 1, IF Len(s) < 4 THEN Len(s) ELSE 4)

\* base_levels[district][season[:4]] has the keys "pre" and "post" only:
\* any other prefix is a KeyError, which the upstream answers with a 500.
SeasonKnown(op, season) ==
    op = "groundwater_level"
        => Prefix4(SeasonText(season)) \in {<<"p","r","e">>, <<"p","o","s","t">>}

\* The upstream's table of districts (keys of DISTRICTS_DATA).
DISTRICTS_DATA == {Str_nalanda, Str_jalgaon, Str_anantapur}

StateOf(d) ==
    IF d = Str_nalanda THEN "Bihar"
    ELSE IF d = Str_jalgaon THEN "Maharashtra" ELSE "Andhra Pradesh"

GeologyOf(d) ==
    IF d = Str_nalanda THEN "Alluvial"
    ELSE IF d = Str_jalgaon THEN "Deccan Trap" ELSE "Hard Rock"

\* district_data["blocks"], of which the upstream draws one at random.
BlocksOf(d) ==
    IF d = Str_nalanda THEN <<"Hilsa", "Nalanda", "Asthawan", "Biharsharif", "Rajgir">>
    ELSE IF d = Str_jalgaon THEN <<"Jalgaon", "Bhusawal", "Chopda", "Pachora", "Muktainagar">>
    ELSE <<"Anantapur", "Kalyanadurg", "Hindupur", "Penukonda", "Tadipatri">>

FacetOps == {"groundwater_level", "water_quality", "rainfall", "drilling"}

-----------------------------------------------------------------------------
(* Bounds of the model.                                                    *)

\* Gateway calls started in one behaviour.
MaxCalls == 2

\* Distinct random draws of the upstream for one request.
NumVersions == 2

\* The clock advances in steps of TickStep seconds up to MaxTime.
TickStep == 1800

MaxTime == 3600

-----------------------------------------------------------------------------
(* JSON text: json.dumps writes an object as its key/value pairs,          *)
(* json.loads reads the pairs back into a dict.                            *)

JsonObject(r) == {<<k, r[k]>> : k \in DOMAIN r}

DictOf(pairs) == [k \in {p[1] : p \in pairs} |-> (CHOOSE p \in pairs : p[1] = k)[2]]

\* A facet payload: {"status", "data": {...}, "timestamp"}; a district list:
\* a JSON array of objects (held in the field "items").
json_dumps(v) ==
    IF "items" \in DOMAIN v
    THEN [array |-> [i \in 1..Len(v.items) |-> JsonObject(v.items[i])]]
    ELSE [object |-> JsonObject([k \in DOMAIN v |->
                        IF k = "data" THEN JsonObject(v[k]) ELSE v[k]])]

json_loads(text) ==
    IF "array" \in DOMAIN text
    THEN [items |-> [i \in 1..Len(text.array) |-> DictOf(text.array[i])]]
    ELSE LET top == DictOf(text.object)
         IN  [k \in DOMAIN top |-> IF k = "data" THEN DictOf(top[k]) ELSE top[k]]

-----------------------------------------------------------------------------
(* The upstream INGRES API (mock-services/ingres-mock.py) as seen through  *)
(* httpx: a response is a 200 with a JSON body, or a failure.              *)

UpFailures == {"timeout", "connect_error", "http_500", "bad_json"}

SourceOf(op) == IF op = "rainfall" THEN "IMD-INGRES" ELSE "CGWB-INGRES"

\* The "data" object of a 200 answer; v stands for the random draws.
UpstreamData(op, d, season, block, year, v) ==
    LET dl == Lower(d)
        base == [district |-> Title(dl), state |-> StateOf(dl),
                 source |-> SourceOf(op), reading |-> v]
    IN  IF op = "groundwater_level"
        THEN [k \in DOMAIN base \cup {"block", "season"} |->
                IF k = "block" THEN (IF block # None THEN block ELSE BlocksOf(dl)[v])
                ELSE IF k = "season" THEN season ELSE base[k]]
        ELSE IF op = "rainfall"
        THEN [k \in DOMAIN base \cup {"year"} |-> IF k = "year" THEN year ELSE base[k]]
        ELSE IF op = "drilling"
        THEN [k \in DOMAIN base \cup {"geology"} |->
                IF k = "geology" THEN GeologyOf(dl) ELSE base[k]]
        ELSE base

UpstreamBody(op, d, season, block, year, v, t) ==
    [status |-> "success", data |-> UpstreamData(op, d, season, block, year, v),
     timestamp |-> t]

\* GET /districts: the list of known districts.
UpstreamDistricts ==
    [status |-> "success",
     data |-> <<[district |-> Title(Str_nalanda), state |-> "Bihar",
                 blocks_count |-> 5, geology |-> "Alluvial"],
                [district |-> Title(Str_jalgaon), state |-> "Maharashtra",
                 blocks_count |-> 5, geology |-> "Deccan Trap"],
                [district |-> Title(Str_anantapur), state |-> "Andhra Pradesh",
                 blocks_count |-> 5, geology |-> "Hard Rock"]>>]

\* What one facet request can come back as: [kind, body].
UpstreamResponses(op, d, season, block, year, t) ==
    {[kind |-> f, body |-> [status |-> "none"]] : f \in UpFailures}
    \cup (IF Lower(d) \in DISTRICTS_DATA
          THEN (IF SeasonKnown(op, season)
                THEN {[kind |-> "ok",
                       body |-> UpstreamBody(op, d, season, block, year, v, t)] :
                          v \in 1..NumVersions}
                ELSE {})
          ELSE {[kind |-> "http_404", body |-> [status |-> "none"]]})

-----------------------------------------------------------------------------
(* IngresService (services/ingres_service.py).                             *)

NoPayload == [status |-> "none"]

\* _get_fallback_data: the static payload of a data type.
\* (water_level_mbgl 12.5, tds 650.0, total_rainfall_mm 750.0 in hundredths,
\* success_probability_percent 65)
FallbackReading(data_type) ==
    IF data_type = "groundwater_level" THEN 1250
    ELSE IF data_type = "water_quality" THEN 65000
    ELSE IF data_type = "rainfall" THEN 75000
    ELSE 65

\* (mutant) the table lacks the entry of one data type, which then gets the
\* default of fallback_data.get: the error payload.
_get_fallback_data_MissingType(data_type, district, t) ==
    IF data_type \in FacetOps \ {"drilling"}
    THEN [status |-> "success",
          data |-> [district |-> Title(district),
                    reading |-> FallbackReading(data_type),
                    source |-> "jalBuddy Fallback Data",
                    note |-> "Live data temporarily unavailable"],
          timestamp |-> t]
    ELSE [status |-> "error", message |-> "Data temporarily unavailable", timestamp |-> t]

_get_fallback_data(data_type, district, t) ==
    IF data_type \in FacetOps
    THEN [status |-> "success",
          data |-> [district |-> Title(district),
                    reading |-> FallbackReading(data_type),
                    source |-> "jalBuddy Fallback Data",
                    note |-> "Live data temporarily unavailable"],
          timestamp |-> t]
    ELSE [status |-> "error", message |-> "Data temporarily unavailable", timestamp |-> t]

\* The list get_available_districts returns when the upstream fails.
FallbackDistricts ==
    [items |-> <<[district |-> Str_Nalanda, state |-> "Bihar", geology |-> "Alluvial"],
                 [district |-> Title(Str_jalgaon), state |-> "Maharashtra",
                  geology |-> "Deccan Trap"],
                 [district |-> Title(Str_anantapur), state |-> "Andhra Pradesh",
                  geology |-> "Hard Rock"]>>]

\* The cache key of a call (the f-strings of the five operations); the
\* components are kept apart as a tuple.
CacheKey(op, district, season, year) ==
    IF op = "groundwater_level" THEN <<"groundwater_level", Lower(district), season>>
    ELSE IF op = "water_quality" THEN <<"water_quality", Lower(district)>>
    ELSE IF op = "rainfall" THEN <<"rainfall", Lower(district), year>>
    ELSE IF op = "drilling" THEN <<"drilling", Lower(district)>>
    ELSE <<"available_districts">>

\* `year = year or datetime.now().year` (0 stands for None).
EffectiveYear(op, year) == IF op = "rainfall" /\ year = 0 THEN CurrentYear ELSE year

CacheTTL(op) == IF op = "available_districts" THEN DISTRICTS_CACHE_TTL ELSE INGRES_CACHE_TTL

\* Redis GET: the text stored under key, nil when absent or expired.
NoText == [nil |-> TRUE]

RedisGet(key) ==
    IF key \in DOMAIN cache /\ now < cache[key].exp THEN cache[key].text ELSE NoText

\* `if cached_data:`
Truthy(text) == "nil" \notin DOMAIN text

\* (mutant) SETEX with the expiry left out of the computation: the entry is
\* stored already expired.
RedisSetex_NoTTL(key, ttl, text) ==
    [k \in DOMAIN cache \cup {key} |->
        IF k = key THEN [text |-> text, exp |-> now] ELSE cache[k]]

\* Redis SETEX key ttl text.
RedisSetex(key, ttl, text) ==
    [k \in DOMAIN cache \cup {key} |->
        IF k = key THEN [text |-> text, exp |-> now + ttl] ELSE cache[k]]

\* Task slots: the comprehensive endpoint's four coroutines take slots 1..4,
\* a direct call a free slot among them.
GatherSlots == 1..4

IdleTask ==
    [pc |-> "idle", op |-> "none", district |-> <<>>, season |-> None, block |-> None,
     year |-> 0, key |-> <<>>, read |-> "none", up |-> "none", nUp |-> 0,
     data |-> NoPayload, owner |-> "none", startLen |-> 0, tRead |-> 0]

\* The record of a completed call: the task's fields, with its outcome.
Completed(tk, outcome, payload, wrote, exp) ==
    [op |-> tk.op, district |-> tk.district, season |-> tk.season, block |-> tk.block,
     year |-> tk.year, key |-> tk.key, read |-> tk.read, up |-> tk.up, nUp |-> tk.nUp,
     startLen |-> tk.startLen, tRead |-> tk.tRead,
     outcome |-> outcome, payload |-> payload, wrote |-> wrote, exp |-> exp]

NoGather ==
    [active |-> FALSE, served |-> 0, district |-> <<>>, results |-> <<>>,
     order |-> <<>>, response |-> NoPayload]

\* A finished coroutine hands its result to its caller: a direct call's goes
\* to the log, a gathered one's into the gather's result list.
Finish(t, tk, rec) ==
    /\ tasks' = [tasks EXCEPT ![t] = IdleTask]
    /\ IF tk.owner = "gather"
       THEN /\ gather' = [gather EXCEPT !.results[t] = rec, !.order = Append(@, t)]
            /\ log' = log
       ELSE /\ log' = Append(log, rec)
            /\ gather' = gather

NotInitialized == [error |-> "RuntimeError", message |-> "INGRES Service not initialized"]

\* initialize(): connect and ping Redis, build the HTTP client, test the
\* connection (a failed test raises only against the production INGRES).
initialize ==
    /\ ~initialized
    /\ redis_client = None
    /\ \A t \in DOMAIN tasks : tasks[t].pc = "idle"
    /\ \E pingOk \in BOOLEAN, healthOk \in BOOLEAN :
        /\ redis_client' = "open"
        /\ http_client' = IF pingOk THEN "open" ELSE http_client
        /\ initialized' = (pingOk /\ (healthOk \/ USE_MOCK_INGRES))
    /\ UNCHANGED <<ai_service, llm, rag, now, cache, tasks, calls, log, gather>>

\* cleanup(): both clients are closed, `self.initialized = False`.
cleanup ==
    /\ initialized
    /\ http_client' = "closed"
    /\ redis_client' = "closed"
    /\ initialized' = FALSE
    /\ UNCHANGED <<ai_service, llm, rag, now, cache, tasks, calls, log, gather>>

\* Entry of an operation, up to its first await: the initialized check of
\* the four facet operations (get_available_districts has none), then the
\* cache key.
Enter(t, tk) ==
    IF tk.op \in FacetOps /\ ~initialized
    THEN Finish(t, tk, Completed(tk, "raised", NotInitialized, "no", 0))
    ELSE /\ tasks' = [tasks EXCEPT ![t] =
                [tk EXCEPT !.pc = "cache_get",
                           !.year = EffectiveYear(tk.op, tk.year),
                           !.key = CacheKey(tk.op, tk.district, tk.season,
                                            EffectiveYear(tk.op, tk.year))]]
         /\ UNCHANGED <<log, gather>>

\* A direct call of one of the five operations by a route handler.
Call(t, op, district, season, block, year) ==
    /\ calls < MaxCalls
    /\ tasks[t].pc = "idle"
    /\ ~gather.active
    /\ calls' = calls + 1
    /\ Enter(t, [IdleTask EXCEPT !.op = op, !.district = district, !.season = season,
                                 !.block = block, !.year = year, !.owner = "direct",
                                 !.startLen = Len(log)])
    /\ UNCHANGED <<ai_service, llm, rag, initialized, redis_client, http_client, now, cache>>

get_groundwater_level(t, district, block, season) ==
    Call(t, "groundwater_level", district, season, block, 0)

get_water_quality(t, district) == Call(t, "water_quality", district, None, None, 0)

get_rainfall_data(t, district, year) == Call(t, "rainfall", district, None, None, year)

get_drilling_recommendation(t, district) == Call(t, "drilling", district, None, None, 0)

get_available_districts(t) == Call(t, "available_districts", <<>>, None, None, 0)

\* (mutant) a failure of the cache read ends the call with the fallback
\* payload.
cache_get_FailureIsFatal(t, redisFaults) ==
    /\ tasks[t].pc = "cache_get"
    /\ LET tk == [tasks[t] EXCEPT !.tRead = now]
       IN  \/ /\ redisFaults \/ redis_client # "open"
              /\ Finish(t, [tk EXCEPT !.read = "error"],
                        Completed([tk EXCEPT !.read = "error"], "returned",
                                  _get_fallback_data(tk.op, tk.district, now), "no", 0))
           \/ /\ redis_client = "open"
              /\ LET cached_data == RedisGet(tk.key)
                 IN  IF Truthy(cached_data)
                     THEN Finish(t, tk, Completed([tk EXCEPT !.read = "hit"], "returned",
                                                 json_loads(cached_data), "no",
                                                 cache[tk.key].exp))
                     ELSE /\ tasks' = [tasks EXCEPT ![t] =
                                        [tk EXCEPT !.pc = "http_get", !.read = "miss"]]
                          /\ UNCHANGED <<log, gather>>
    /\ UNCHANGED <<ai_service, llm, rag, initialized, redis_client, http_client, now, cache, calls>>

\* `cached_data = await self.redis_client.get(cache_key)`: a hit returns
\* json.loads of the text; an exception is logged and the call goes on.
cache_get(t, redisFaults) ==
    /\ tasks[t].pc = "cache_get"
    /\ LET tk == [tasks[t] EXCEPT !.tRead = now]
       IN  \/ /\ redisFaults \/ redis_client # "open"
              /\ tasks' = [tasks EXCEPT ![t] = [tk EXCEPT !.pc = "http_get", !.read = "error"]]
              /\ UNCHANGED <<log, gather>>
           \/ /\ redis_client = "open"
              /\ LET cached_data == RedisGet(tk.key)
                 IN  IF Truthy(cached_data)
                     THEN Finish(t, tk, Completed([tk EXCEPT !.read = "hit"], "returned",
                                                 json_loads(cached_data), "no",
                                                 cache[tk.key].exp))
                     ELSE /\ tasks' = [tasks EXCEPT ![t] =
                                        [tk EXCEPT !.pc = "http_get", !.read = "miss"]]
                          /\ UNCHANGED <<log, gather>>
    /\ UNCHANGED <<ai_service, llm, rag, initialized, redis_client, http_client, now, cache, calls>>

\* What the upstream can answer to the task's request.
ResponsesFor(tk, failures) ==
    IF http_client # "open"
    THEN {[kind |-> "client_error", body |-> NoPayload]}
    ELSE IF tk.op = "available_districts"
    THEN {[kind |-> f, body |-> NoPayload] : f \in failures}
         \cup {[kind |-> "ok", body |-> UpstreamDistricts]}
    ELSE {r \in UpstreamResponses(tk.op, tk.district, tk.season, tk.block, tk.year, now) :
             r.kind \in failures \cup {"ok", "http_404"}}

\* The value the operation keeps from a decoded 200 body.
DataOf(tk, body) == IF tk.op = "available_districts" THEN [items |-> body.data] ELSE body

FallbackFor(tk) ==
    IF tk.op = "available_districts" THEN FallbackDistricts
    ELSE _get_fallback_data(tk.op, tk.district, now)

\* (mutant) the fallback payload is stored in the cache like a fetched one.
http_get_CachesFallback(t, failures) ==
    /\ tasks[t].pc = "http_get"
    /\ \E r \in ResponsesFor(tasks[t], failures) :
        LET tk == [tasks[t] EXCEPT !.up = r.kind, !.nUp = @ + 1]
        IN  IF r.kind = "ok"
            THEN /\ tasks' = [tasks EXCEPT ![t] =
                        [tk EXCEPT !.pc = "cache_set", !.data = DataOf(tk, r.body)]]
                 /\ cache' = cache
                 /\ UNCHANGED <<log, gather>>
            ELSE /\ cache' = RedisSetex(tk.key, CacheTTL(tk.op), json_dumps(FallbackFor(tk)))
                 /\ Finish(t, tk, Completed(tk, "returned", FallbackFor(tk), "no", 0))
    /\ UNCHANGED <<ai_service, llm, rag, initialized, redis_client, http_client, now, calls>>

\* `response = await self.http_client.get(...)`, raise_for_status(),
\* response.json(): any exception ends the call with the fallback payload.
http_get(t, failures) ==
    /\ tasks[t].pc = "http_get"
    /\ \E r \in ResponsesFor(tasks[t], failures) :
        LET tk == [tasks[t] EXCEPT !.up = r.kind, !.nUp = @ + 1]
        IN  IF r.kind = "ok"
            THEN /\ tasks' = [tasks EXCEPT ![t] =
                        [tk EXCEPT !.pc = "cache_set", !.data = DataOf(tk, r.body)]]
                 /\ UNCHANGED <<log, gather>>
            ELSE Finish(t, tk, Completed(tk, "returned", FallbackFor(tk), "no", 0))
    /\ UNCHANGED <<ai_service, llm, rag, initialized, redis_client, http_client, now, cache, calls>>

\* `await self.redis_client.setex(cache_key, ttl, json.dumps(data))`, its
\* exception logged and swallowed; then `return data`.
cache_set(t, redisFaults) ==
    /\ tasks[t].pc = "cache_set"
    /\ LET tk == tasks[t]
       IN  \/ /\ redis_client = "open"
              /\ cache' = RedisSetex(tk.key, CacheTTL(tk.op), json_dumps(tk.data))
              /\ Finish(t, tk, Completed(tk, "returned", tk.data, "ok",
                                         now + CacheTTL(tk.op)))
           \/ /\ redisFaults \/ redis_client # "open"
              /\ cache' = cache
              /\ Finish(t, tk, Completed(tk, "returned", tk.data, "error", 0))
    /\ UNCHANGED <<ai_service, llm, rag, initialized, redis_client, http_client, now, calls>>

\* Time passes; Redis drops the entries whose TTL has run out.  A call
\* lasts seconds (the HTTP timeout is 30 s) and the clock's step is far
\* longer, so the clock is advanced between calls.
Tick ==
    /\ now + TickStep <= MaxTime
    /\ \A t \in DOMAIN tasks : tasks[t].pc = "idle"
    /\ now' = now + TickStep
    /\ cache' = [k \in {j \in DOMAIN cache : now + TickStep < cache[j].exp} |-> cache[k]]
    /\ UNCHANGED <<ai_service, llm, rag, initialized, redis_client, http_client, tasks, calls, log, gather>>

-----------------------------------------------------------------------------
(* The synthesizer's provider chain (models/llm_manager.py, LLMManager).   *)
(* Confidences are in hundredths.                                           *)

\* generate_response calls made in one behaviour.
MaxGenerations == 2

\* Distinct completions a hosted provider may answer with.
NumCompletions == 2

Contains(s, sub) ==
    \E i \in 0..(Len(s) - Len(sub)) : \A j \in 1..Len(sub) : s[i + j] = sub[j]

\* A Devanagari word is one symbol of a text, named by its transliteration.
Kw_level == <<"l","e","v","e","l">>
Kw_star == <<"hi_star">>
Kw_borewell == <<"b","o","r","e","w","e","l","l">>
Kw_borewell_hi == <<"hi_borewell">>

NoLLMResponse == [kind |-> "none"]

LLMResponse(content, model_used, tokens_used, confidence) ==
    [kind |-> "LLMResponse", content |-> content, model_used |-> model_used,
     tokens_used |-> tokens_used, confidence |-> confidence]

\* __init__ and _initialize_clients: a client exists when its key is set
\* and its package is importable.
NewLLMManager(openai_client, anthropic_client) ==
    [openai_client |-> openai_client, anthropic_client |-> anthropic_client,
     pc |-> "idle", prompt |-> <<>>, language |-> None, attempts |-> <<>>,
     result |-> NoLLMResponse, generations |-> 0]

\* _generate_openai_response once chat.completions.create has answered.
_generate_openai_response(v) ==
    LLMResponse([provider |-> "openai", completion |-> v], "gpt-4", v, 90)

\* _generate_anthropic_response once messages.create has answered.
_generate_anthropic_response(v) ==
    LLMResponse([provider |-> "anthropic", completion |-> v], "claude-3-sonnet", v, 85)

\* The query type the template generator detects in prompt.lower().
TemplateKind(prompt) ==
    LET prompt_lower == Lower(prompt)
    IN  IF Contains(prompt_lower, Kw_level) \/ Contains(prompt_lower, Kw_star)
        THEN "level"
        ELSE IF Contains(prompt_lower, Kw_borewell) \/ Contains(prompt_lower, Kw_borewell_hi)
             THEN "borewell"
             ELSE "general"

\* len(content.split()) of the six template texts.
TemplateWords(kind, hindi) ==
    CASE kind = "level" -> IF hindi THEN 40 ELSE 39
      [] kind = "borewell" -> IF hindi THEN 31 ELSE 28
      [] OTHER -> IF hindi THEN 16 ELSE 13

\* (mutant) the template generator fails.
_generate_template_response_Raises(prompt, language) ==
    [kind |-> "Exception", message |-> "template failed"]

_generate_template_response(prompt, language) ==
    LLMResponse([template |-> TemplateKind(prompt),
                 text |-> IF language = "hi" THEN "hi" ELSE "en"],
                "template_fallback",
                TemplateWords(TemplateKind(prompt), language = "hi"),
                60)

\* (mutant) the chain turns to Anthropic before OpenAI.
NextProvider_AnthropicFirst(after) ==
    IF after = "start" /\ llm.anthropic_client THEN "anthropic"
    ELSE IF after \in {"start", "anthropic"} /\ llm.openai_client THEN "openai"
    ELSE "template"

\* The provider generate_response turns to next: at its start, or after the
\* exception of the provider `after` was caught and logged.
NextProvider(after) ==
    IF after = "start" /\ llm.openai_client THEN "openai"
    ELSE IF after \in {"start", "openai"} /\ llm.anthropic_client THEN "anthropic"
    ELSE "template"

Attempt(provider, outcome) == [provider |-> provider, outcome |-> outcome]

\* generate_response from its start, or from a caught provider exception, up
\* to its next await or its return.
Proceed(m, after) ==
    LET next == NextProvider(after)
    IN  IF next = "template"
        THEN [m EXCEPT !.pc = "idle",
                       !.attempts = Append(@, Attempt("template", "ok")),
                       !.result = _generate_template_response(m.prompt, m.language)]
        ELSE [m EXCEPT !.pc = next,
                       !.attempts = Append(@, Attempt(next, "pending"))]

generate_response(prompt, language) ==
    /\ llm.pc = "idle"
    /\ llm.generations < MaxGenerations
    /\ llm' = Proceed([llm EXCEPT !.prompt = prompt, !.language = language,
                                  !.attempts = <<>>, !.result = NoLLMResponse,
                                  !.generations = @ + 1], "start")
    /\ UNCHANGED <<gatewayVars, rag, ai_service>>

\* The awaited call of a hosted provider answers or raises.
ProviderAnswers(provider, response) ==
    /\ llm.pc = provider
    /\ llm' = [llm EXCEPT !.pc = "idle",
                          !.attempts[Len(llm.attempts)].outcome = "ok",
                          !.result = response]
    /\ UNCHANGED <<gatewayVars, rag, ai_service>>

ProviderRaises(provider) ==
    /\ llm.pc = provider
    /\ llm' = Proceed([llm EXCEPT !.attempts[Len(llm.attempts)].outcome = "raised"],
                      provider)
    /\ UNCHANGED <<gatewayVars, rag, ai_service>>

openai_answers == \E v \in 1..NumCompletions : ProviderAnswers("openai", _generate_openai_response(v))

openai_raises == ProviderRaises("openai")

anthropic_answers ==
    \E v \in 1..NumCompletions : ProviderAnswers("anthropic", _generate_anthropic_response(v))

anthropic_raises == ProviderRaises("anthropic")

-----------------------------------------------------------------------------
(* The retriever (services/rag_service.py, RAGService, on Qdrant, and      *)
(* services/rag_service_chroma.py, ChromaRAGService, on ChromaDB).         *)
(* Scores, thresholds and confidences are in hundredths.                   *)

TOP_K_RESULTS == 5

SIMILARITY_THRESHOLD == 70

\* add_knowledge_document calls made in one behaviour.
MaxAdds == 2

\* search_knowledge calls made in one behaviour.
MaxSearches == 1

\* generate_context_aware_response calls made in one behaviour.
MaxAnswers == 1

\* initialize runs told apart in one behaviour.
MaxBoots == 2

\* The seed chunks of _load_initial_knowledge, each text shortened to a key
\* word of it; an id is a tuple of symbols, a seed's name being one symbol.
SeedChunks ==
    <<
      [id |-> <<"gec_categories_en">>,
       content |-> <<"g","e","c">>, language |-> "en",
       document_type |-> "gec2015", section |-> "classification"],
      [id |-> <<"gec_categories_hi">>,
       content |-> <<"hi_gec">>, language |-> "hi",
       document_type |-> "gec2015", section |-> "classification"],
      [id |-> <<"water_quality_standards_en">>,
       content |-> <<"t","d","s">>, language |-> "en",
       document_type |-> "standards", section |-> "water_quality"],
      [id |-> <<"water_quality_standards_hi">>,
       content |-> <<"hi_tds">>, language |-> "hi",
       document_type |-> "standards", section |-> "water_quality"],
      [id |-> <<"borewell_guidelines_en">>,
       content |-> <<"b","o","r","e">>, language |-> "en",
       document_type |-> "guidelines", section |-> "borewell_construction"],
      [id |-> <<"borewell_guidelines_hi">>,
       content |-> <<"hi_borewell">>, language |-> "hi",
       document_type |-> "guidelines", section |-> "borewell_construction"],
      [id |-> <<"recharge_methods_en">>,
       content |-> <<"p","i","t","s">>, language |-> "en",
       document_type |-> "guidelines", section |-> "groundwater_recharge"],
      [id |-> <<"recharge_methods_hi">>,
       content |-> <<"hi_recharge">>, language |-> "hi",
       document_type |-> "guidelines", section |-> "groundwater_recharge"]
    >>

CharCode(c) ==
    IF IsLower(c) THEN CHOOSE i \in 1..26 : LowerAlpha[i] = c
    ELSE IF IsUpper(c) THEN 26 + (CHOOSE i \in 1..26 : UpperAlpha[i] = c)
    ELSE 0

RECURSIVE Hash(_, _)
Hash(text, modulus) ==
    IF text = <<>> THEN 7
    ELSE (31 * Hash(SubSeq(text, 1, Len(text) - 1), modulus) + CharCode(text[Len(text)])) % modulus

HexDigits == <<"0","1","2","3","4","5","6","7","8","9","a","b","c","d","e","f">>

\* hashlib.sha256(content.encode()).hexdigest()[:16], as a two-digit digest:
\* a function of the content's characters alone, collisions possible.
Digest(content) ==
    LET h == Hash(content, 256)
    IN  <<HexDigits[(h \div 16) + 1], HexDigits[(h % 16) + 1]>>

\* (mutant) the id is hashed over the content and the language.
doc_id_LanguageSalted(content, document_type, language) ==
    Digest(content \o (IF language = "hi" THEN <<"h", "i">> ELSE <<"e", "n">>))

\* doc_id of add_knowledge_document.
doc_id(content, document_type, language) == Digest(content)

\* The embedding model: a text goes to one of four unit vectors (length 10).
UnitVectors == << <<10, 0>>, <<8, 6>>, <<6, 8>>, <<0, 10>> >>

Encode(text) == UnitVectors[(Hash(text, 4)) + 1]

\* Cosine similarity of two texts' embeddings (Qdrant, Distance.COSINE).
Cosine(a, b) == Encode(a)[1] * Encode(b)[1] + Encode(a)[2] * Encode(b)[2]

\* Squared L2 distance of the two embeddings (ChromaDB's default space).
ChromaDistance(a, b) == 200 - 2 * Cosine(a, b)

\* (mutant) the threshold is not applied.
MeetsThreshold_Ignored(similarity, score_threshold) == TRUE

\* `if similarity >= score_threshold` (ChromaRAGService) and the
\* score_threshold Qdrant's search is given (RAGService).
MeetsThreshold(similarity, score_threshold) == similarity >= score_threshold

RECURSIVE SortDesc(_)
SortDesc(S) ==
    IF S = {} THEN <<>>
    ELSE LET best == CHOOSE x \in S : \A y \in S :
                        \/ x.score > y.score
                        \/ x.score = y.score /\ x.pos <= y.pos
         IN  <<best>> \o SortDesc(S \ {best})

\* (mutant) the store returns every hit, whatever the limit.
Take_Unlimited(seq, n) == seq

\* The first n hits (`limit` of Qdrant, `n_results` of ChromaDB).
Take(seq, n) == SubSeq(seq, 1, IF n < Len(seq) THEN n ELSE Len(seq))

\* One formatted search result; payload.get(key, default) for what a point
\* does not carry.
ResultItem(point, score) ==
    [content |-> point.content, score |-> score,
     language |-> IF point.language = None THEN "en" ELSE point.language,
     section |-> IF point.section = None THEN "general" ELSE point.section,
     document_type |-> IF point.document_type = None THEN "unknown" ELSE point.document_type]

\* The formatting loop over the store's hits.
FormatResults(store, hits) ==
    [k \in 1..Len(hits) |-> ResultItem(store[hits[k].pos], hits[k].score)]

\* The points Qdrant scores: all of the collection, by cosine similarity.
QdrantScored(store, query) ==
    {[pos |-> i, score |-> Cosine(query, store[i].content)] : i \in 1..Len(store)}

\* The points ChromaDB ranks: those of the language asked for, by distance;
\* the score is the `1.0 - distance` the formatting loop computes.
ChromaScored(store, query, language) ==
    {[pos |-> i, score |-> 100 - ChromaDistance(query, store[i].content)] :
        i \in {j \in 1..Len(store) : store[j].language = language}}

AtThreshold(scored, score_threshold) == {x \in scored : MeetsThreshold(x.score, score_threshold)}

\* qdrant_client.search(query_vector, limit, score_threshold): the points
\* scoring at least the threshold, best first, at most `limit` of them.
QdrantSearch(store, query, limit, score_threshold) ==
    FormatResults(store,
        Take(SortDesc(AtThreshold(QdrantScored(store, query), score_threshold)), limit))

\* collection.query(query_texts, n_results, where={"language": language}),
\* then the loop that keeps `similarity = 1.0 - distance` at the threshold.
ChromaSearch(store, query, language, limit, score_threshold) ==
    FormatResults(store,
        SelectSeq(Take(SortDesc(ChromaScored(store, query, language)), limit),
                  LAMBDA x : MeetsThreshold(x.score, score_threshold)))

NoSearch == [outcome |-> "none"]

NoAnswer == [kind |-> "none"]

NewRAGService(impl) ==
    [impl |-> impl, initialized |-> FALSE, store |-> <<>>, adds |-> <<>>,
     search |-> NoSearch, searches |-> 0, answer |-> NoAnswer, answers |-> 0,
     cleaned |-> FALSE, asked |-> NoAnswer, boots |-> 0]

StoreIds(store) == {store[i].id : i \in 1..Len(store)}

\* (mutant) the seed chunks are loaded whatever the collection holds.
_load_initial_knowledge_Reseeds(store, seedOk) ==
    IF seedOk THEN SeedChunks ELSE store

\* _load_initial_knowledge: a collection that counts no document gets the
\* seed chunks in one upsert (add); any exception is logged and the
\* collection is left as it was.
_load_initial_knowledge(store, seedOk) ==
    IF Len(store) = 0 /\ seedOk THEN SeedChunks ELSE store

\* initialize(): connect to the store, load the embedding model, seed the
\* collection when it is empty (a failure of the seeding is logged only).
\* boots counts the runs that completed, up to MaxBoots.
rag_initialize ==
    /\ ~rag.initialized
    /\ \E connectOk \in BOOLEAN, seedOk \in BOOLEAN :
        rag' = IF ~connectOk THEN rag
               ELSE [rag EXCEPT !.initialized = TRUE, !.cleaned = FALSE,
                                !.boots = IF @ < MaxBoots THEN @ + 1 ELSE @,
                                !.store = _load_initial_knowledge(@, seedOk)]
    /\ UNCHANGED <<gatewayVars, llm, ai_service>>

\* cleanup(): the Qdrant client is closed; `self.initialized = False`. The
\* collection stays in the store.
rag_cleanup ==
    /\ rag' = [rag EXCEPT !.initialized = FALSE, !.cleaned = TRUE]
    /\ UNCHANGED <<gatewayVars, llm, ai_service>>

\* Where the service is in its life: before initialize, after it, or after
\* cleanup.
Phase == IF rag.initialized THEN "initialized"
         ELSE IF rag.cleaned THEN "cleaned" ELSE "new"

\* The store's upsert (Qdrant) and add (ChromaDB) of one point.
Upsert(store, point) ==
    IF point.id \in StoreIds(store)
    THEN [i \in 1..Len(store) |-> IF store[i].id = point.id THEN point ELSE store[i]]
    ELSE Append(store, point)

AddRecord(content, document_type, language, section, outcome, id, store) ==
    [content |-> content, document_type |-> document_type, language |-> language,
     section |-> section, outcome |-> outcome, id |-> id,
     before |-> Cardinality(StoreIds(rag.store)), after |-> Cardinality(StoreIds(store)),
     known |-> id \in StoreIds(rag.store)]

\* add_knowledge_document(content, document_type, language, metadata): the
\* metadata given is a section, or None. Qdrant upserts the point; ChromaDB
\* adds it, and an id it already holds is left as it is or refused.
add_knowledge_document(content, document_type, language, section) ==
    /\ Len(rag.adds) < MaxAdds
    /\ LET id == doc_id(content, document_type, language)
           point == [id |-> id, content |-> content, language |-> language,
                     document_type |-> document_type, section |-> section]
           Done(outcome, store) ==
               rag' = [rag EXCEPT !.store = store,
                                  !.adds = Append(@, AddRecord(content, document_type, language,
                                                               section, outcome, id, store))]
       IN  IF ~rag.initialized
           THEN Done("raised", rag.store)
           ELSE \/ Done("raised", rag.store)
                \/ /\ rag.impl = "qdrant"
                   /\ Done("returned", Upsert(rag.store, point))
                \/ /\ rag.impl = "chroma"
                   /\ Done("returned", IF id \in StoreIds(rag.store)
                                       THEN rag.store ELSE Append(rag.store, point))
    /\ UNCHANGED <<gatewayVars, llm, ai_service>>

\* What search_knowledge returns on an initialized service.
SearchResults(query, language, limit, score_threshold) ==
    IF rag.impl = "qdrant"
    THEN QdrantSearch(rag.store, query, limit, score_threshold)
    ELSE ChromaSearch(rag.store, query, language, limit, score_threshold)

\* search_knowledge(query, language, limit, score_threshold): raises on an
\* uninitialized service; an exception of the store or the model gives [].
search_knowledge(query, language, limit, score_threshold) ==
    /\ rag.searches < MaxSearches
    /\ \E storeOk \in BOOLEAN :
        rag' = [rag EXCEPT !.searches = @ + 1, !.search =
                  [query |-> query, language |-> language, limit |-> limit,
                   score_threshold |-> score_threshold, phase |-> Phase,
                   outcome |-> IF rag.initialized THEN "returned" ELSE "raised",
                   failed |-> rag.initialized /\ ~storeOk,
                   results |-> IF rag.initialized /\ storeOk
                               THEN SearchResults(query, language, limit, score_threshold)
                               ELSE <<>>]]
    /\ UNCHANGED <<gatewayVars, llm, ai_service>>

Kw_category_en ==
    {<<"c","a","t","e","g","o","r","y">>,
     <<"c","l","a","s","s","i","f","i","c","a","t","i","o","n">>,
     <<"g","e","c">>}

Kw_category_hi ==
    {<<"hi_shreni">>,
     <<"hi_vargikaran">>,
     <<"g","e","c">>}

Kw_quality_en ==
    {<<"q","u","a","l","i","t","y">>,
     <<"s","a","f","e">>,
     <<"d","r","i","n","k">>}

Kw_quality_hi ==
    {<<"hi_gunvatta">>,
     <<"hi_surakshit">>,
     <<"hi_peene">>}

Kw_bore_en ==
    {<<"b","o","r","e","w","e","l","l">>,
     <<"d","r","i","l","l","i","n","g">>,
     <<"b","o","r","e">>}

Kw_bore_hi ==
    {<<"hi_borewell">>,
     <<"hi_drilling">>,
     <<"hi_khudai">>}

Kw_recharge_en ==
    {<<"r","e","c","h","a","r","g","e">>,
     <<"r","a","i","n","w","a","t","e","r">>}

Kw_recharge_hi ==
    {<<"hi_recharge">>,
     <<"hi_varsha"," ","hi_jal">>}

ContainsAny(text, words) == \E w \in words : Contains(text, w)

\* _generate_english_contextual_response / _generate_hindi_contextual_response:
\* the template the lowered query selects.
ContextualKind(query_lower, language) ==
    LET hindi == language = "hi"
    IN  IF ContainsAny(query_lower, IF hindi THEN Kw_category_hi ELSE Kw_category_en)
        THEN "classification"
        ELSE IF ContainsAny(query_lower, IF hindi THEN Kw_quality_hi ELSE Kw_quality_en)
        THEN "quality"
        ELSE IF ContainsAny(query_lower, IF hindi THEN Kw_bore_hi ELSE Kw_bore_en)
        THEN "borewell"
        ELSE IF ContainsAny(query_lower, IF hindi THEN Kw_recharge_hi ELSE Kw_recharge_en)
        THEN "recharge"
        ELSE "general"

Min(a, b) == IF a < b THEN a ELSE b

\* _get_fallback_response and the except branch's result.
FallbackAnswer(language) ==
    [kind |-> "response",
     response |-> [template |-> "fallback", text |-> IF language = "hi" THEN "hi" ELSE "en"],
     knowledge_sources |-> 0, context_used |-> FALSE, confidence |-> 50,
     language |-> language]

\* ingres_data is a dict of facet payloads. A facet's entry is a payload,
\* a null value (None, as the aggregate endpoint reports an unavailable
\* facet), or is not there at all.
AbsentKey == [status |-> "absent"]

NullValue == [status |-> "null"]

ContextFacets == {"groundwater_level", "water_quality"}

\* `if ingres_data:` a dict with at least one key.
HasIngres(ingres_data) == \E f \in ContextFacets : ingres_data[f] # AbsentKey

\* `ingres_data[facet].get("data", {})` on a None value: AttributeError.
ContextRaises(ingres_data) ==
    \E f \in ContextFacets : ingres_data[f] = NullValue

\* payload.get("data", {}), truthy
FacetData(payload) ==
    IF "data" \in DOMAIN payload THEN payload.data ELSE [status |-> "empty"]

\* The "Current Data:" lines of the context, by the facet they come from:
\* the level's when its data is not empty, the quality's when its data has
\* "parameters".
CurrentData(ingres_data) ==
    LET level == ingres_data["groundwater_level"]
        quality == ingres_data["water_quality"]
        fromLevel == IF level # AbsentKey /\ "data" \in DOMAIN level
                     THEN <<"groundwater_level">> ELSE <<>>
        fromQuality == IF quality # AbsentKey
                          /\ "parameters" \in DOMAIN FacetData(quality)
                       THEN <<"water_quality">> ELSE <<>>
    IN  fromLevel \o fromQuality

\* (mutant) each chunk found lowers the confidence.
ContextConfidence_Decreasing(n) == 95 - n * 5

\* `min(0.95, 0.7 + (len(knowledge_chunks) * 0.05))`
ContextConfidence(n) == Min(95, 70 + n * 5)

\* The try branch's result, from the chunks the search returned.
ContextAnswer(query, language, knowledge_chunks, ingres_data) ==
    LET top == Take(knowledge_chunks, 3)
    IN  [kind |-> "response",
         response |-> [template |-> ContextualKind(Lower(query), language),
                       text |-> IF language = "hi" THEN "hi" ELSE "en",
                       location |-> "your area",
                       guidelines |-> [k \in 1..Len(top) |-> top[k].content],
                       current_data |-> CurrentData(ingres_data)],
         knowledge_sources |-> Len(knowledge_chunks),
         context_used |-> (Len(knowledge_chunks) > 0 \/ HasIngres(ingres_data)),
         confidence |-> ContextConfidence(Len(knowledge_chunks)),
         language |-> language]

\* generate_context_aware_response(query, language, ingres_data): the search
\* with the settings' limit and threshold, then the templated answer; any
\* exception (an uninitialized service's RuntimeError, the AttributeError of
\* a null facet) gives the fallback.
generate_context_aware_response(query, language, ingres_data) ==
    /\ rag.answers < MaxAnswers
    /\ \E storeOk \in BOOLEAN :
        rag' = [rag EXCEPT !.answers = @ + 1,
                  !.asked = [kind |-> "request", query |-> query, language |-> language,
                             ingres_data |-> ingres_data, phase |-> Phase,
                             failed |-> ~storeOk],
                  !.answer =
                  IF ~rag.initialized \/ ContextRaises(ingres_data)
                  THEN FallbackAnswer(language)
                  ELSE ContextAnswer(query, language,
                          IF storeOk
                          THEN SearchResults(query, language, TOP_K_RESULTS, SIMILARITY_THRESHOLD)
                          ELSE <<>>,
                          ingres_data)]
    /\ UNCHANGED <<gatewayVars, llm, ai_service>>

-----------------------------------------------------------------------------
(* The chat query operation: AIService (services/ai_service.py) behind the *)
(* chat route of AI-BACKEND, EnhancedAIService                              *)
(* (ai-backend/services/ai_service_enhanced.py) behind the chat route of    *)
(* ai-backend.  Confidences are in hundredths.                              *)

\* process_query calls made in one behaviour.
MaxQueries == 3

\* random.choice(responses): the variants of a response told apart.
NumVariants == 2

\* The process_query coroutines of AIService that can be in flight at once.
ChatSlots == 1..2

\* A user_id that is a list: user_context is a Dict[str, Any], and the route
\* spreads query.context over it.
UnhashableUserId == "['u1']"

Hashable(user_id) == user_id # UnhashableUserId

\* The words _generate_hindi_response and _generate_english_response look
\* for in the lowered query, by the kind of response they select.
AiKeywords(kind, hindi) ==
    IF kind = "level"
    THEN (IF hindi THEN {<<"hi_bhujal">>, <<"hi_jal", " ", "hi_star">>}
          ELSE {<<"g","r","o","u","n","d","w","a","t","e","r">>,
                <<"w","a","t","e","r"," ","l","e","v","e","l">>})
    ELSE IF kind = "borewell"
    THEN (IF hindi THEN {<<"hi_borewell">>, <<"hi_drilling">>}
          ELSE {<<"b","o","r","e","w","e","l","l">>, <<"d","r","i","l","l","i","n","g">>})
    ELSE (IF hindi THEN {<<"hi_gunvatta">>, <<"hi_pani", " ", "hi_ki", " ", "hi_jaanch">>}
          ELSE {<<"q","u","a","l","i","t","y">>,
                <<"c","o","n","t","a","m","i","n","a","t","i","o","n">>})

\* _generate_hindi_response / _generate_english_response: the list of
\* responses the lowered query selects.
DynamicKind(query_lower, language) ==
    LET hindi == language = "hi"
    IN  IF ContainsAny(query_lower, AiKeywords("level", hindi))
        THEN "level"
        ELSE IF ContainsAny(query_lower, AiKeywords("borewell", hindi))
        THEN "borewell"
        ELSE IF ContainsAny(query_lower, AiKeywords("quality", hindi))
        THEN "quality"
        ELSE "general"

\* _generate_dynamic_response: one of the responses of the kind, drawn at
\* random, for the default location.
_generate_dynamic_response(query, language, v) ==
    [kind |-> DynamicKind(Lower(query), language),
     text |-> IF language = "hi" THEN "hi" ELSE "en", variant |-> v]

\* The random draws of one process_query told apart: the confidence
\* (random.uniform(0.75, 0.95)), the number of sources (random.randint(2, 3))
\* and whether the second source's relevance outranks the first's.
RandomDraws ==
    <<[confidence |-> 75, n |-> 2, swapped |-> FALSE],
      [confidence |-> 95, n |-> 3, swapped |-> TRUE]>>

\* _get_relevant_sources: the 2 or 3 sources of highest drawn relevance, in
\* two of the orders the draws can give.
_get_relevant_sources(n, swapped) ==
    LET ranked == IF swapped
                  THEN <<"GEC-2015 Manual", "CGWB Guidelines", "INGRES Database">>
                  ELSE <<"CGWB Guidelines", "GEC-2015 Manual", "INGRES Database">>
    IN  SubSeq(ranked, 1, n)

NoReply == [status |-> "none"]

\* One process_query coroutine of AIService; `received` numbers the calls in
\* the order the service received them.
IdleQuery ==
    [pc |-> "idle", query |-> <<>>, language |-> None, user_id |-> None, received |-> 0]

\* The last process_query call that ended: its arguments, how it ended,
\* the conversation history before and after the step that ended it, and
\* what the chat route answers for it.
NoCall ==
    [pc |-> "none", class |-> None, query |-> <<>>, language |-> None, user_id |-> None,
     outcome |-> "none", error |-> None, result |-> NoReply,
     before |-> <<>>, after |-> <<>>, http |-> 0]

\* AIService.__init__
NewAIService ==
    [class |-> "AIService", initialized |-> FALSE, model_loaded |-> FALSE,
     conversation_history |-> <<>>, queries |-> 0,
     slots |-> [s \in ChatSlots |-> IdleQuery], last |-> NoCall]

\* EnhancedAIService.__init__
NewEnhancedAIService ==
    [class |-> "EnhancedAIService", llm_manager |-> None, is_initialized |-> FALSE,
     query_count |-> 0, pc |-> "idle", query |-> <<>>, language |-> None,
     last |-> NoCall]

\* The keys of the result that process_chat_query reads with result[key].
ChatFields(class) ==
    IF class = "AIService"
    THEN {"response", "confidence", "sources", "language", "processing_time", "timestamp"}
    ELSE {"response", "confidence", "model_used", "processing_time", "timestamp"}

\* process_chat_query: the ChatResponse built from the result, or the 500 of
\* its `except Exception` (process_query raised, or a key is missing).
process_chat_query(class, outcome, result) ==
    IF outcome = "returned" /\ ChatFields(class) \subseteq DOMAIN result
    THEN 200 ELSE 500

Ended(class, query, language, user_id, outcome, error, result, before, after) ==
    [pc |-> "done", class |-> class, query |-> query, language |-> language,
     user_id |-> user_id, outcome |-> outcome, error |-> error, result |-> result,
     before |-> before, after |-> after,
     http |-> process_chat_query(class, outcome, result)]

\* AIService.initialize
ai_initialize ==
    /\ ai_service.class = "AIService"
    /\ ~ai_service.initialized
    /\ ai_service' = [ai_service EXCEPT !.initialized = TRUE, !.model_loaded = TRUE]
    /\ UNCHANGED <<gatewayVars, llm, rag>>

\* AIService.cleanup
ai_cleanup ==
    /\ ai_service.class = "AIService"
    /\ ai_service.initialized
    /\ ai_service' = [ai_service EXCEPT !.initialized = FALSE, !.model_loaded = FALSE,
                                        !.conversation_history = <<>>]
    /\ UNCHANGED <<gatewayVars, llm, rag>>

\* `self.conversation_history[user_id] = []` for a user_id not yet a key.
WithUser(history, user_id) ==
    IF user_id \in DOMAIN history THEN history
    ELSE [u \in DOMAIN history \cup {user_id} |->
            IF u = user_id THEN <<>> ELSE history[u]]

\* (mutant) the exchange replaces the user's list.
StoreExchange_Replaces(history, user_id, exchange) ==
    [history EXCEPT ![user_id] = <<exchange>>]

\* `self.conversation_history[user_id].append({...})`
StoreExchange(history, user_id, exchange) ==
    [history EXCEPT ![user_id] = Append(@, exchange)]

\* AIService.process_query up to its await (the sleep of
\* _generate_dynamic_response): RuntimeError on a service not initialized,
\* TypeError on an unhashable user_id, else the user's list is made.
process_query(s, query, language, user_id) ==
    /\ ai_service.class = "AIService"
    /\ ai_service.slots[s].pc = "idle"
    /\ ai_service.queries < MaxQueries
    /\ LET history == ai_service.conversation_history
           counted == [ai_service EXCEPT !.queries = @ + 1]
       IN  IF ~ai_service.initialized
           THEN ai_service' = [counted EXCEPT !.last =
                    Ended("AIService", query, language, user_id, "raised", "RuntimeError",
                          NoReply, history, history)]
           ELSE IF ~Hashable(user_id)
           THEN ai_service' = [counted EXCEPT !.last =
                    Ended("AIService", query, language, user_id, "raised", "TypeError",
                          NoReply, history, history)]
           ELSE ai_service' = [counted EXCEPT
                    !.conversation_history = WithUser(history, user_id),
                    !.slots[s] = [pc |-> "sleeping", query |-> query,
                                  language |-> language, user_id |-> user_id,
                                  received |-> ai_service.queries + 1]]
    /\ UNCHANGED <<gatewayVars, llm, rag>>

\* AIService.process_query from the end of the sleep to its return: the
\* response is drawn, the exchange appended (KeyError when cleanup has
\* cleared the history meanwhile), the result built.
process_query_resume(s) ==
    /\ ai_service.class = "AIService"
    /\ ai_service.slots[s].pc = "sleeping"
    /\ LET q == ai_service.slots[s]
           history == ai_service.conversation_history
       IN  \E v \in 1..NumVariants, d \in DOMAIN RandomDraws :
            LET confidence == RandomDraws[d].confidence
                n == RandomDraws[d].n
                swapped == RandomDraws[d].swapped
                response == _generate_dynamic_response(q.query, q.language, v)
                exchange == [query |-> q.query, response |-> response, timestamp |-> now]
                stored == StoreExchange(history, q.user_id, exchange)
                result == [response |-> response, confidence |-> confidence,
                           sources |-> _get_relevant_sources(n, swapped),
                           language |-> q.language, processing_time |-> 0,
                           timestamp |-> now]
            IN  IF q.user_id \notin DOMAIN history
                THEN ai_service' = [ai_service EXCEPT !.slots[s] = IdleQuery, !.last =
                        Ended("AIService", q.query, q.language, q.user_id, "raised",
                              "KeyError", NoReply, history, history)]
                ELSE ai_service' = [ai_service EXCEPT !.slots[s] = IdleQuery,
                        !.conversation_history = stored, !.last =
                        Ended("AIService", q.query, q.language, q.user_id, "returned",
                              None, result, history, stored)]
    /\ UNCHANGED <<gatewayVars, llm, rag>>

\* EnhancedAIService.initialize
enhanced_initialize ==
    /\ ai_service.class = "EnhancedAIService"
    /\ ~ai_service.is_initialized
    /\ ai_service' = [ai_service EXCEPT !.llm_manager = "LLMManager",
                                        !.is_initialized = TRUE]
    /\ UNCHANGED <<gatewayVars, llm, rag>>

\* The except branch's result of EnhancedAIService.process_query.
EnhancedFallback(language, error) ==
    [response |-> [kind |-> "fallback_msg", text |-> IF language = "hi" THEN "hi" ELSE "en"],
     confidence |-> 30, model_used |-> "fallback", error |-> error, timestamp |-> now]

\* The try branch's result.
EnhancedResult(llm_response, language, query_id) ==
    [response |-> llm_response.content, confidence |-> llm_response.confidence,
     model_used |-> llm_response.model_used, tokens_used |-> llm_response.tokens_used,
     processing_time |-> 0, language |-> language, timestamp |-> now,
     query_id |-> query_id,
     sources |-> <<[type |-> "AI Model", model |-> llm_response.model_used,
                    confidence |-> llm_response.confidence]>>,
     response_type |-> "text"]

\* EnhancedAIService.process_query up to the await of
\* llm_manager.generate_response, which it starts; on a service not
\* initialized llm_manager is None and the AttributeError is caught.
enhanced_process_query(query, language) ==
    /\ ai_service.class = "EnhancedAIService"
    /\ ai_service.pc = "idle"
    /\ ai_service.query_count < MaxQueries
    /\ llm.pc = "idle"
    /\ LET counted == [ai_service EXCEPT !.query_count = @ + 1]
       IN  IF ai_service.llm_manager = None
           THEN /\ ai_service' = [counted EXCEPT !.last =
                        Ended("EnhancedAIService", query, language, None, "returned",
                              "AttributeError", EnhancedFallback(language, "AttributeError"),
                              <<>>, <<>>)]
                /\ llm' = llm
           ELSE /\ ai_service' = [counted EXCEPT !.pc = "generating", !.query = query,
                                                 !.language = language]
                /\ llm' = Proceed([llm EXCEPT !.prompt = query, !.language = language,
                                              !.attempts = <<>>, !.result = NoLLMResponse,
                                              !.generations = @ + 1], "start")
    /\ UNCHANGED <<gatewayVars, rag>>

\* EnhancedAIService.process_query once generate_response has returned.
enhanced_process_query_resume ==
    /\ ai_service.class = "EnhancedAIService"
    /\ ai_service.pc = "generating"
    /\ llm.pc = "idle"
    /\ ai_service' = [ai_service EXCEPT !.pc = "idle", !.last =
            Ended("EnhancedAIService", ai_service.query, ai_service.language, None,
                  "returned", None,
                  EnhancedResult(llm.result, ai_service.language, ai_service.query_count),
                  <<>>, <<>>)]
    /\ UNCHANGED <<gatewayVars, llm, rag>>

-----------------------------------------------------------------------------
(* The gateway under direct calls.                                         *)

InitGateway ==
    /\ initialized = FALSE
    /\ redis_client = None
    /\ http_client = None
    /\ now = 0
    /\ cache = <<>>
    /\ tasks = [t \in GatherSlots |-> IdleTask]
    /\ calls = 0
    /\ log = <<>>
    /\ gather = NoGather

\* The settings' defaults: no provider key, the ChromaDB retriever.
Init ==
    /\ InitGateway
    /\ llm = NewLLMManager(FALSE, FALSE)
    /\ rag = NewRAGService("chroma")
    /\ ai_service = NewAIService

\* The arguments the direct calls are made with.
GwDistricts == {Str_Nalanda, Str_Atlantis}

\* One direct call at a time (slot 1): each call returns before the next.
NextGateway ==
    \/ initialize
    \/ \E d \in GwDistricts : get_groundwater_level(1, d, None, "post_monsoon")
    \/ \E d \in GwDistricts : get_water_quality(1, d)
    \/ \E d \in GwDistricts : get_rainfall_data(1, d, 0)
    \/ \E d \in GwDistricts : get_drilling_recommendation(1, d)
    \/ get_available_districts(1)
    \/ cache_get(1, TRUE)
    \/ http_get(1, UpFailures)
    \/ cache_set(1, TRUE)
    \/ Tick

Spec == Init /\ [][NextGateway]_vars

-----------------------------------------------------------------------------
(* Properties of the gateway under direct calls (Spec).                    *)

UpFailed(rec) == rec.up \in UpFailures \cup {"http_404", "client_error"}

IsFallback(payload) ==
    /\ "data" \in DOMAIN payload
    /\ payload.data.source = "jalBuddy Fallback Data"

\* Two calls of the log, one right after the other, of the same facet
\* operation with the same arguments, both on an initialized service.
SameCallTwice(a, b) ==
    /\ a.op \in FacetOps
    /\ b.op = a.op
    /\ b.district = a.district /\ b.season = a.season
    /\ b.block = a.block /\ b.year = a.year
    /\ a.outcome = "returned" /\ b.outcome = "returned"

ServedFromFirst(a, b) ==
    /\ a.wrote = "ok" \/ a.read = "hit"
    /\ b.read # "error"
    /\ b.tRead < a.exp

C2_FallbackOnUpstreamFailure ==
    \A i \in 1..Len(log) :
        LET rec == log[i]
        IN  (rec.op \in FacetOps /\ UpFailed(rec))
            => /\ rec.outcome = "returned"
               /\ IsFallback(rec.payload)
               /\ rec.payload.data.reading = FallbackReading(rec.op)
               /\ rec.payload.data.district = Title(rec.district)
               /\ rec.payload.status = "success"

C2_Witness ==
    \E i \in 1..Len(log), j \in 1..Len(log) :
        /\ log[i].op \in FacetOps /\ log[i].up = "http_500"
        /\ log[j].op \in FacetOps /\ log[j].up = "bad_json"

\* C6 as stated: a facet fetch for a district the upstream answers 404 for
\* raises RegionNotFound to its caller instead of returning a payload.
C6_RegionNotFound ==
    \A i \in 1..Len(log) :
        (log[i].op \in FacetOps /\ log[i].up = "http_404")
        => /\ log[i].outcome = "raised"
           /\ log[i].payload.error = "RegionNotFound"

\* The step of a call whose upstream request failed.
UpstreamFailureStep ==
    \E t \in DOMAIN tasks :
        /\ tasks[t].pc = "http_get"
        /\ tasks'[t].pc # "cache_set"

CacheHoldsOnlyLiveData ==
    /\ \A k \in DOMAIN cache :
        /\ ~IsFallback(json_loads(cache[k].text))
        /\ k[1] \in FacetOps => k[2] \in DISTRICTS_DATA
    /\ \A i \in 1..Len(log) : log[i].wrote = "ok" => log[i].up = "ok"

\* C7: the cache is written only after the call's own upstream request
\* succeeded: a failed upstream request (a 404 included) leaves the cache as
\* it was, no entry ever holds a fallback payload and none exists for a
\* district the upstream rejects.
C7_CacheWrittenOnlyAfterSuccess ==
    /\ []CacheHoldsOnlyLiveData
    /\ [][UpstreamFailureStep => cache' = cache]_vars

C7_Witness ==
    /\ cache # <<>>
    /\ \E i \in 1..Len(log) : log[i].up = "http_404"

\* C8 as stated: every payload a facet fetch returns says where it came
\* from: source=cache on a hit, source=live after a successful upstream
\* request, source=fallback with degraded=true after a failed one.
C8_ProvenanceAnnotated ==
    \A i \in 1..Len(log) :
        LET rec == log[i]
            p == rec.payload
        IN  (rec.op \in FacetOps /\ rec.outcome = "returned")
            => /\ "source" \in DOMAIN p
               /\ rec.read = "hit" => p.source = "cache"
               /\ rec.up = "ok" => p.source = "live"
               /\ UpFailed(rec) => /\ p.source = "fallback"
                                   /\ "degraded" \in DOMAIN p
                                   /\ p.degraded = TRUE

-----------------------------------------------------------------------------
(* The comprehensive endpoint (api/routes/ingres.py,                       *)
(* get_comprehensive_data): four facet coroutines under asyncio.gather.    *)

\* Comprehensive requests served in one behaviour.
MaxGathers == 1

NoResult == [outcome |-> "pending"]

\* tasks = [get_groundwater_level(district, state), get_water_quality(...),
\*          get_rainfall_data(district), get_drilling_recommendation(...)]
GatherOps == <<"groundwater_level", "water_quality", "rainfall", "drilling">>

\* The handler up to `await asyncio.gather(*tasks, return_exceptions=True)`.
\* app.state holds the service only once initialize() has returned; without
\* it the 503 the handler raises is caught by its own `except Exception`
\* and leaves as a 500.
get_comprehensive_data(district) ==
    /\ ~gather.active
    /\ gather.served < MaxGathers
    /\ \A t \in DOMAIN tasks : tasks[t].pc = "idle"
    /\ IF ~initialized
       THEN /\ gather' = [gather EXCEPT
                    !.served = @ + 1, !.district = district,
                    !.results = [t \in GatherSlots |-> NoResult], !.order = <<>>,
                    !.response = [status |-> "http_500",
                                  detail |-> "503: INGRES service not available"]]
            /\ tasks' = tasks
       ELSE /\ gather' = [gather EXCEPT
                    !.active = TRUE, !.served = @ + 1, !.district = district,
                    !.results = [t \in GatherSlots |-> NoResult], !.order = <<>>,
                    !.response = NoPayload]
            /\ tasks' = [t \in GatherSlots |->
                    [IdleTask EXCEPT !.pc = "created", !.op = GatherOps[t],
                                     !.district = district,
                                     !.season = IF t = 1 THEN "post_monsoon" ELSE None,
                                     !.owner = "gather"]]
    /\ UNCHANGED <<ai_service, llm, rag, initialized, redis_client, http_client, now, cache, calls, log>>

\* A gathered coroutine runs from its start to its first await.
task_start(t) ==
    /\ tasks[t].pc = "created"
    /\ Enter(t, tasks[t])
    /\ UNCHANGED <<ai_service, llm, rag, initialized, redis_client, http_client, now, cache, calls>>

IsException(result) == result.outcome = "raised"

\* `results[i] if not isinstance(results[i], Exception) else None`
ResultOrNone(result) == IF IsException(result) THEN NoPayload ELSE result.payload

\* The aggregate built from the gathered results.
comprehensive_data(district, results) ==
    [district |-> Title(district),
     state |-> None,
     groundwater_level |-> ResultOrNone(results[1]),
     water_quality |-> ResultOrNone(results[2]),
     rainfall_data |-> ResultOrNone(results[3]),
     drilling_recommendation |-> ResultOrNone(results[4]),
     data_availability |->
        [groundwater_level |-> ~IsException(results[1]),
         water_quality |-> ~IsException(results[2]),
         rainfall_data |-> ~IsException(results[3]),
         drilling_recommendation |-> ~IsException(results[4])]]

\* (mutant) the results come in the order the coroutines completed.
GatherResults_AsCompleted(results, order) ==
    [k \in GatherSlots |-> results[order[k]]]

\* `results = await asyncio.gather(*tasks, return_exceptions=True)`: the
\* results in the order of the arguments, whatever the order of completion.
GatherResults(results, order) == results

\* gather returns once every coroutine has returned or raised; the handler
\* then builds and returns the aggregate.
gather_return ==
    /\ gather.active
    /\ \A t \in GatherSlots : gather.results[t] # NoResult
    /\ gather' = [gather EXCEPT
            !.active = FALSE,
            !.response = [status |-> "success",
                          data |-> comprehensive_data(gather.district,
                                        GatherResults(gather.results, gather.order)),
                          timestamp |-> now]]
    /\ UNCHANGED <<ai_service, llm, rag, initialized, redis_client, http_client, now, cache, tasks, calls, log>>

\* The upstream failures drawn in the comprehensive request.
GatherFailures == {"http_500", "timeout"}

NextComprehensive ==
    \/ initialize
    \/ \E d \in GwDistricts : get_comprehensive_data(d)
    \/ \E t \in GatherSlots : task_start(t)
    \/ \E t \in GatherSlots : cache_get(t, TRUE)
    \/ \E t \in GatherSlots : http_get(t, GatherFailures)
    \/ \E t \in GatherSlots : cache_set(t, TRUE)
    \/ gather_return

SpecComprehensive == Init /\ [][NextComprehensive]_vars

\* The facets of a served comprehensive request whose upstream call failed.
FailedFacets ==
    {t \in GatherSlots : /\ gather.results[t] # NoResult
                         /\ UpFailed(gather.results[t])}

Served ==
    /\ ~gather.active
    /\ gather.response.status = "success"

Availability(t) ==
    LET a == gather.response.data.data_availability
    IN  CASE t = 1 -> a.groundwater_level
          [] t = 2 -> a.water_quality
          [] t = 3 -> a.rainfall_data
          [] t = 4 -> a.drilling_recommendation

\* C3: when the upstream call of exactly one of the four facets of a
\* comprehensive request fails, the aggregate succeeds and data_availability
\* reports that facet unavailable and the other three available.
C3_OneFacetUnavailable ==
    (~gather.active /\ gather.served > 0 /\ Cardinality(FailedFacets) = 1)
    => /\ gather.response.status = "success"
       /\ \A t \in GatherSlots : Availability(t) = (t \notin FailedFacets)

\* What the code does in that case: the failed facet comes back as a fallback
\* payload, so all four facets are reported available.
C3_AllReportedAvailable ==
    Served => \A t \in GatherSlots :
                /\ Availability(t)
                /\ UpFailed(gather.results[t])
                    => IsFallback(gather.response.data[
                          CASE t = 1 -> "groundwater_level"
                            [] t = 2 -> "water_quality"
                            [] t = 3 -> "rainfall_data"
                            [] t = 4 -> "drilling_recommendation"])

C3_Witness ==
    /\ Served
    /\ Cardinality(FailedFacets) = 1
    /\ gather.results[3].up = "http_500"

-----------------------------------------------------------------------------
(* The provider chain on its own.                                          *)

Languages == {"en", "hi"}

Prompts == {<<"L","e","v","e","l">>, <<"b","o","r","e","w","e","l","l">>,
            <<"h","i">>, <<"hi_star">>}

InitLLM ==
    /\ InitGateway
    /\ \E openai_client \in BOOLEAN, anthropic_client \in BOOLEAN :
            llm = NewLLMManager(openai_client, anthropic_client)
    /\ rag = NewRAGService("chroma")
    /\ ai_service = NewAIService

NextLLM ==
    \/ \E prompt \in Prompts, language \in Languages : generate_response(prompt, language)
    \/ openai_answers
    \/ openai_raises
    \/ anthropic_answers
    \/ anthropic_raises

SpecLLM == InitLLM /\ [][NextLLM]_vars

-----------------------------------------------------------------------------
(* The retriever on its own, in both implementations.                      *)

Queries == {<<"g","e","c">>, <<"b","o","r","e">>, <<"G","E","C">>}

SearchQueries == {<<"g","e","c">>, <<"b","o","r","e">>}

AddContents == {<<"t","d","s">>, <<"f","a","q">>}

AddTypes == {"guidelines", "faq"}

\* The metadata that comes with a document: a faq names its section.
SectionOf(document_type) == IF document_type = "faq" THEN "custom" ELSE None

Limits == {1, TOP_K_RESULTS}

Thresholds == {0, SIMILARITY_THRESHOLD, 101}

InitRetriever ==
    /\ InitGateway
    /\ llm = NewLLMManager(FALSE, FALSE)
    /\ \E impl \in {"qdrant", "chroma"} : rag = NewRAGService(impl)
    /\ ai_service = NewAIService

NextRetriever ==
    \/ rag_initialize
    \/ \E content \in AddContents, document_type \in AddTypes, language \in Languages :
            add_knowledge_document(content, document_type, language, SectionOf(document_type))
    \/ \E query \in SearchQueries, language \in Languages,
          limit \in Limits, score_threshold \in Thresholds :
            search_knowledge(query, language, limit, score_threshold)

SpecRetriever == InitRetriever /\ [][NextRetriever]_vars

-----------------------------------------------------------------------------
(* The synthesizer: the retriever's templated answer and the provider      *)
(* chain.                                                                   *)

\* Facet payloads as the gateway returns them.
LevelPayload ==
    [status |-> "success",
     data |-> [water_level_mbgl |-> 620, status |-> "Good", gec_category |-> "Safe"]]

QualityPayload ==
    [status |-> "success", data |-> [parameters |-> [tds |-> 450, fluoride |-> 8]]]

\* The ingres_data arguments: none, the level alone, the level with a null
\* quality, both facets.
IngresInputs ==
    {[groundwater_level |-> AbsentKey, water_quality |-> AbsentKey],
     [groundwater_level |-> LevelPayload, water_quality |-> AbsentKey],
     [groundwater_level |-> LevelPayload, water_quality |-> NullValue],
     [groundwater_level |-> LevelPayload, water_quality |-> QualityPayload]}

InitSynth ==
    /\ InitGateway
    /\ \E openai_client \in BOOLEAN, anthropic_client \in BOOLEAN :
            llm = NewLLMManager(openai_client, anthropic_client)
    /\ \E impl \in {"qdrant", "chroma"} : rag = NewRAGService(impl)
    /\ ai_service = NewAIService

NextSynth ==
    \/ rag_initialize
    \/ \E query \in Queries, language \in Languages, ingres_data \in IngresInputs :
            generate_context_aware_response(query, language, ingres_data)
    \/ NextLLM

SpecSynth == InitSynth /\ [][NextSynth]_vars

-----------------------------------------------------------------------------
(* Properties of the synthesizer (SpecSynth, SpecLLM).                     *)

Returned == llm.pc = "idle" /\ llm.generations > 0

HostedProviders == {"openai", "anthropic"}

\* No hosted provider answered in the call: none was configured, or every
\* configured one raised.
NoHostedAnswer ==
    \A i \in 1..Len(llm.attempts) :
        llm.attempts[i].provider \in HostedProviders => llm.attempts[i].outcome = "raised"

\* C4: generate_response never raises and always returns an LLMResponse,
\* whichever providers are configured and whichever of them fail; when no
\* hosted provider answered, the response is the template fallback. And
\* generate_context_aware_response returns a response, also when the
\* knowledge search yielded nothing.
C4_AlwaysReturns ==
    /\ llm.result.kind # "Exception"
    /\ Returned =>
        /\ llm.result.kind = "LLMResponse"
        /\ NoHostedAnswer => /\ llm.result.model_used = "template_fallback"
                             /\ "template" \in DOMAIN llm.result.content
    /\ rag.answers > 0 =>
        /\ rag.answer.kind = "response"
        /\ "response" \in DOMAIN rag.answer
        /\ rag.answer.knowledge_sources = 0 => rag.answer.response.template # None

C4_Witness ==
    /\ Returned
    /\ llm.openai_client /\ llm.anthropic_client
    /\ Len(llm.attempts) = 3
    /\ NoHostedAnswer
    /\ llm.result.model_used = "template_fallback"
    /\ rag.initialized
    /\ rag.answers > 0
    /\ rag.answer.knowledge_sources = 0
    /\ rag.answer.kind = "response"

Rank(provider) ==
    CASE provider = "openai" -> 1
      [] provider = "anthropic" -> 2
      [] provider = "template" -> 3

Configured(provider) ==
    CASE provider = "openai" -> llm.openai_client
      [] provider = "anthropic" -> llm.anthropic_client
      [] provider = "template" -> TRUE

ModelName(provider) ==
    CASE provider = "openai" -> "gpt-4"
      [] provider = "anthropic" -> "claude-3-sonnet"
      [] provider = "template" -> "template_fallback"

\* C5: within one generate_response call the providers are attempted in the
\* order OpenAI, Anthropic, template, each at most once; a provider is
\* attempted only after every configured provider before it has raised; and
\* the result is the one of the first provider that did not raise, with
\* model_used naming that provider.
C5_ProviderOrder ==
    LET a == llm.attempts
        n == Len(llm.attempts)
    IN  /\ \A i \in 1..n, j \in 1..n : i < j => Rank(a[i].provider) < Rank(a[j].provider)
        /\ \A i \in 1..n : Configured(a[i].provider)
        /\ \A j \in 1..n : \A p \in HostedProviders :
              (Configured(p) /\ Rank(p) < Rank(a[j].provider))
              => \E i \in 1..(j - 1) : a[i].provider = p /\ a[i].outcome = "raised"
        /\ \A i \in 1..(n - 1) : a[i].outcome = "raised"
        /\ llm.pc # "idle" => /\ n > 0
                              /\ a[n] = Attempt(llm.pc, "pending")
                              /\ llm.result = NoLLMResponse
        /\ Returned => /\ n > 0
                       /\ a[n].outcome = "ok"
                       /\ llm.result.model_used = ModelName(a[n].provider)
                       /\ a[n].provider \in HostedProviders
                            => llm.result.content.provider = a[n].provider

C5_Witness ==
    /\ Returned
    /\ llm.openai_client /\ llm.anthropic_client
    /\ llm.attempts = <<Attempt("openai", "raised"), Attempt("anthropic", "ok")>>
    /\ llm.result.model_used = "claude-3-sonnet"

-----------------------------------------------------------------------------
(* Properties of the retriever (SpecRetriever).                            *)

\* C9: add_knowledge_document derives the id from the content alone: adding
\* the same content again, with whatever document_type, language and
\* metadata, returns the same id and leaves the number of distinct chunks as
\* it was, in both implementations.
C9_ReAddSameId ==
    /\ Cardinality(StoreIds(rag.store)) = Len(rag.store)
    /\ \A i \in 1..Len(rag.adds), j \in 1..Len(rag.adds) :
        (i < j /\ rag.adds[i].content = rag.adds[j].content
               /\ rag.adds[i].outcome = "returned" /\ rag.adds[j].outcome = "returned")
        => /\ rag.adds[j].id = rag.adds[i].id
           /\ rag.adds[j].known
           /\ rag.adds[j].after = rag.adds[j].before

C9_Witness ==
    /\ rag.impl = "chroma"
    /\ Len(rag.adds) = 2
    /\ rag.adds[1].content = rag.adds[2].content
    /\ rag.adds[1].document_type # rag.adds[2].document_type
    /\ rag.adds[1].language # rag.adds[2].language
    /\ rag.adds[1].section # rag.adds[2].section
    /\ rag.adds[1].outcome = "returned" /\ rag.adds[2].outcome = "returned"
    /\ rag.adds[1].after = rag.adds[1].before + 1
    /\ rag.adds[2].after = rag.adds[2].before

\* C10: every item search_knowledge returns scores at least the requested
\* score_threshold; a search with the threshold 1.01 returns nothing.
C10_ScoresMeetThreshold ==
    (rag.searches > 0 /\ rag.search.outcome = "returned")
    => /\ \A k \in 1..Len(rag.search.results) :
            rag.search.results[k].score >= rag.search.score_threshold
       /\ rag.search.score_threshold = 101 => rag.search.results = <<>>

C10_Witness ==
    /\ rag.searches > 0
    /\ rag.search.outcome = "returned"
    /\ ~rag.search.failed
    /\ rag.search.score_threshold = 101
    /\ rag.search.results = <<>>
    /\ \E i \in 1..Len(rag.store) :
            /\ rag.store[i].content = rag.search.query
            /\ rag.store[i].language = rag.search.language

-----------------------------------------------------------------------------
(* Cache keys of the groundwater-level fetch: calls whose arguments differ  *)
(* in letter case or in the block (SpecKeys).                               *)

KeyDistricts == {Str_Nalanda, Str_nalanda}

KeySeasons == {"post_monsoon", "POST_MONSOON"}

KeyBlocks == {None, "Rajgir", "Hilsa"}

KeyFailures == {"http_500", "timeout"}

NextKeys ==
    \/ initialize
    \/ \E d \in KeyDistricts, b \in KeyBlocks, s \in KeySeasons :
          get_groundwater_level(1, d, b, s)
    \/ cache_get(1, TRUE)
    \/ http_get(1, KeyFailures)
    \/ cache_set(1, TRUE)
    \/ Tick

SpecKeys == Init /\ [][NextKeys]_vars

\* Two calls of the log, one right after the other, of the same facet
\* operation, whose arguments are equal up to the case of the letters of the
\* district and of the season.
CaseVariants(a, b) ==
    /\ a.op \in FacetOps
    /\ b.op = a.op
    /\ Lower(b.district) = Lower(a.district)
    /\ Lower(SeasonText(b.season)) = Lower(SeasonText(a.season))
    /\ b.block = a.block /\ b.year = a.year
    /\ a.outcome = "returned" /\ b.outcome = "returned"

\* C11: two facet fetches whose arguments differ only in letter case, in the
\* district or in the season, have the same cache key, and the second is
\* served from the entry the first one wrote (when that entry was written,
\* has not expired, and the second call's cache read does not fail).
C11_CaseInsensitiveKey ==
    \A i \in 1..(Len(log) - 1) :
        LET a == log[i]
            b == log[i + 1]
        IN  CaseVariants(a, b)
            => /\ b.key = a.key
               /\ ServedFromFirst(a, b) => (b.read = "hit" /\ b.payload = a.payload)

\* The same, for the calls that differ in the case of the district only.
DistrictCaseOnly ==
    \A i \in 1..(Len(log) - 1) :
        LET a == log[i]
            b == log[i + 1]
        IN  (CaseVariants(a, b) /\ b.season = a.season)
            => /\ b.key = a.key
               /\ ServedFromFirst(a, b) => (b.read = "hit" /\ b.payload = a.payload)

C11_Witness ==
    /\ Len(log) = 2
    /\ CaseVariants(log[1], log[2])
    /\ log[1].season = "post_monsoon" /\ log[2].season = "POST_MONSOON"
    /\ log[1].wrote = "ok"
    /\ log[2].tRead < log[1].exp
    /\ log[2].read = "miss"

\* C12: the cache key of a groundwater-level fetch tells apart every
\* parameter forwarded upstream (district, season, block), and a payload
\* read from the cache by a request that names a block is a payload of
\* that block.
C12_KeyDistinguishesBlock ==
    /\ \A i, j \in 1..Len(log) :
          (log[i].op = "groundwater_level" /\ log[j].op = "groundwater_level"
           /\ log[i].key = log[j].key /\ log[i].outcome = "returned"
           /\ log[j].outcome = "returned")
          => log[i].block = log[j].block
    /\ \A i \in 1..Len(log) :
          (log[i].op = "groundwater_level" /\ log[i].read = "hit"
           /\ log[i].block # None)
          => log[i].payload.data.block = log[i].block

C12_Witness ==
    /\ Len(log) = 2
    /\ log[1].block = "Rajgir" /\ log[1].wrote = "ok"
    /\ log[2].block = "Hilsa" /\ log[2].read = "hit"
    /\ log[2].payload.data.block = "Rajgir"

-----------------------------------------------------------------------------
(* Properties of the retriever's search (SpecRetriever), continued.        *)

\* C13: every chunk search_knowledge(query, language = L, ...) returns has
\* language exactly L, in both retriever implementations.
C13_ResultsInRequestedLanguage ==
    (rag.searches > 0 /\ rag.search.outcome = "returned")
    => \A k \in 1..Len(rag.search.results) :
            rag.search.results[k].language = rag.search.language

\* The same, for the Chroma retriever alone (its query carries
\* where = {"language": language}).
ChromaResultsInRequestedLanguage ==
    (rag.impl = "chroma" /\ rag.searches > 0 /\ rag.search.outcome = "returned")
    => \A k \in 1..Len(rag.search.results) :
            rag.search.results[k].language = rag.search.language

C13_Witness ==
    /\ rag.impl = "qdrant"
    /\ rag.searches > 0
    /\ rag.search.outcome = "returned"
    /\ rag.search.language = "hi"
    /\ \E k \in 1..Len(rag.search.results) : rag.search.results[k].language = "en"

-----------------------------------------------------------------------------
(* The retriever through its life: initialize, search, cleanup             *)
(* (SpecLifecycle).                                                         *)

NextLifecycle ==
    \/ rag_initialize
    \/ rag_cleanup
    \/ \E query \in SearchQueries, language \in Languages,
          limit \in Limits, score_threshold \in Thresholds :
            search_knowledge(query, language, limit, score_threshold)

SpecLifecycle == InitRetriever /\ [][NextLifecycle]_vars

\* C14: search_knowledge never raises, in every state of the service
\* (before initialize, after initialize, after cleanup); when the embedding
\* function or the vector store fails it returns the empty sequence.
C14_SearchNeverRaises ==
    rag.searches > 0
    => /\ rag.search.outcome = "returned"
       /\ rag.search.failed => rag.search.results = <<>>

\* The same, for the searches made on an initialized service.
InitializedSearchNeverRaises ==
    (rag.searches > 0 /\ rag.search.phase = "initialized")
    => /\ rag.search.outcome = "returned"
       /\ rag.search.failed => rag.search.results = <<>>

C14_Witness ==
    /\ rag.searches > 0
    /\ rag.search.phase = "cleaned"
    /\ Len(rag.store) > 0
    /\ rag.search.outcome = "raised"

-----------------------------------------------------------------------------
(* The templated answer and the live data given to it (SpecSynth).          *)

\* The facets of ingres_data that carry a payload.
PresentFacets(ingres_data) ==
    {f \in ContextFacets : ingres_data[f] \notin {AbsentKey, NullValue}}

\* A facet is missing: its key is absent or its value is null.
SomeFacetMissing(ingres_data) ==
    \E f \in ContextFacets : ingres_data[f] \in {AbsentKey, NullValue}

\* The normal answer: not the fallback's template, the confidence computed
\* from the number of chunks found, the present facets and at most three
\* chunks in the context.
NormalAnswer(answer, ingres_data) ==
    /\ answer.response.template # "fallback"
    /\ answer.confidence = Min(95, 70 + answer.knowledge_sources * 5)
    /\ Len(answer.response.guidelines) = Min(3, answer.knowledge_sources)
    /\ {answer.response.current_data[k] : k \in 1..Len(answer.response.current_data)}
            = PresentFacets(ingres_data)

\* C15: on an initialized retriever, when a live-data facet is missing from
\* ingres_data (an absent key or a null value), generate_context_aware_response
\* still returns the normal answer, with the present facets and at most the
\* top 3 chunks in its context and the knowledge-based confidence.
C15_MissingFacetLeftOut ==
    (rag.answers > 0 /\ rag.asked.phase = "initialized"
     /\ SomeFacetMissing(rag.asked.ingres_data))
    => NormalAnswer(rag.answer, rag.asked.ingres_data)

\* The same, for the facets missing as absent keys only.
AbsentFacetLeftOut ==
    (rag.answers > 0 /\ rag.asked.phase = "initialized"
     /\ ~ContextRaises(rag.asked.ingres_data))
    => NormalAnswer(rag.answer, rag.asked.ingres_data)

C15_Witness ==
    /\ rag.answers > 0
    /\ rag.asked.phase = "initialized"
    /\ ~rag.asked.failed
    /\ Len(rag.store) > 0
    /\ rag.asked.ingres_data["groundwater_level"] = LevelPayload
    /\ rag.asked.ingres_data["water_quality"] = NullValue
    /\ rag.answer.response.template = "fallback"
    /\ rag.answer.confidence = 50

-----------------------------------------------------------------------------
(* The chat query operation of the two backends (SpecChat).                 *)

ChatQueries == {<<"B","o","r","e","w","e","l","l">>, <<"hi_bhujal">>}

UserIds == {"anonymous", "u1", UnhashableUserId}

\* One of the two backends runs: AI-BACKEND with its AIService, or
\* ai-backend with its EnhancedAIService and the providers its keys give.
InitChat ==
    /\ InitGateway
    /\ rag = NewRAGService("chroma")
    /\ \/ /\ ai_service = NewAIService
          /\ llm = NewLLMManager(FALSE, FALSE)
       \/ /\ ai_service = NewEnhancedAIService
          /\ \E openai_client \in BOOLEAN, anthropic_client \in BOOLEAN :
                llm = NewLLMManager(openai_client, anthropic_client)

NextChat ==
    \/ ai_initialize
    \/ ai_cleanup
    \/ \E s \in ChatSlots, query \in ChatQueries, language \in Languages,
          user_id \in UserIds : process_query(s, query, language, user_id)
    \/ \E s \in ChatSlots : process_query_resume(s)
    \/ enhanced_initialize
    \/ \E query \in ChatQueries, language \in Languages :
          enhanced_process_query(query, language)
    \/ enhanced_process_query_resume
    \/ openai_answers
    \/ openai_raises
    \/ anthropic_answers
    \/ anthropic_raises

SpecChat == InitChat /\ [][NextChat]_vars

\* C16: every process_query call that ends, of AIService and of
\* EnhancedAIService, returns an object that has every field the chat
\* endpoint reads, so that the endpoint never answers 500.
C16_WellFormedResponse ==
    ai_service.last.pc = "done"
    => /\ ai_service.last.outcome = "returned"
       /\ ChatFields(ai_service.last.class) \subseteq DOMAIN ai_service.last.result
       /\ ai_service.last.http # 500

\* The same, for the calls made on an initialized service with a hashable
\* user_id and no cleanup while they run.
InitializedWellFormed ==
    (ai_service.last.pc = "done" /\ ai_service.last.error = None)
    => /\ ai_service.last.outcome = "returned"
       /\ ChatFields(ai_service.last.class) \subseteq DOMAIN ai_service.last.result
       /\ ai_service.last.http = 200

\* AIService raises out of process_query.
C16_Witness ==
    /\ ai_service.class = "AIService"
    /\ ai_service.last.pc = "done"
    /\ ai_service.last.outcome = "raised"
    /\ ai_service.last.http = 500

\* EnhancedAIService returns its fallback object, which lacks fields the
\* endpoint reads.
EnhancedFallbackLacksFields ==
    /\ ai_service.class = "EnhancedAIService"
    /\ ai_service.last.pc = "done"
    /\ ai_service.last.outcome = "returned"
    /\ ai_service.last.result.model_used = "fallback"
    /\ "processing_time" \notin DOMAIN ai_service.last.result
    /\ ai_service.last.http = 500

\* C20: a process_query of AIService that succeeds appends exactly one
\* exchange, its own, to the history of the request's user_id, after the
\* entries already there, and leaves every other user's history and every
\* stored entry as they were; a process_query that fails appends nothing.
C20_AppendsOneExchange ==
    (ai_service.last.pc = "done" /\ ai_service.last.class = "AIService")
    => LET call == ai_service.last
           before == call.before
           after == call.after
       IN  IF call.outcome = "returned"
           THEN /\ DOMAIN after = DOMAIN before
                /\ call.user_id \in DOMAIN before
                /\ Len(after[call.user_id]) = Len(before[call.user_id]) + 1
                /\ SubSeq(after[call.user_id], 1, Len(before[call.user_id]))
                        = before[call.user_id]
                /\ after[call.user_id][Len(after[call.user_id])].query = call.query
                /\ after[call.user_id][Len(after[call.user_id])].response
                        = call.result.response
                /\ \A u \in DOMAIN before \ {call.user_id} : after[u] = before[u]
           ELSE after = before

C20_Witness ==
    /\ ai_service.class = "AIService"
    /\ ai_service.last.pc = "done"
    /\ ai_service.last.outcome = "returned"
    /\ ai_service.last.user_id = "u1"
    /\ Len(ai_service.last.before["u1"]) = 1
    /\ Len(ai_service.last.after["u1"]) = 2
    /\ "anonymous" \in DOMAIN ai_service.last.after
    /\ Len(ai_service.last.after["anonymous"]) = 1
    /\ ai_service.conversation_history = ai_service.last.after

\* A call that failed after cleanup cleared the history under it.
FailedCallAppendsNothing ==
    /\ ai_service.class = "AIService"
    /\ ai_service.last.pc = "done"
    /\ ai_service.last.error = "KeyError"
    /\ ai_service.initialized
    /\ ai_service.conversation_history = ai_service.last.before

-----------------------------------------------------------------------------
(* Cache failures of the gateway (Spec).                                    *)

\* The call passed the initialized check.
OnInitialized(rec) == rec.outcome = "returned"

CacheFailed(rec) == rec.read = "error" \/ rec.wrote = "error"

\* C17: in a facet fetch on an initialized gateway a failed cache read is a
\* miss (the fetch goes upstream) and a failed cache write is swallowed (the
\* fetch returns the live upstream payload); a fetch with a cache failure
\* does not raise, and returns the fallback payload only when its upstream
\* call failed.
C17_CacheFailureNonFatal ==
    \A i \in 1..Len(log) :
        LET rec == log[i]
        IN  (rec.op \in FacetOps /\ (OnInitialized(rec) \/ CacheFailed(rec)))
            => /\ rec.read = "error" => rec.nUp = 1
               /\ rec.wrote = "error" => rec.up = "ok"
               /\ CacheFailed(rec)
                    => /\ rec.outcome = "returned"
                       /\ IsFallback(rec.payload) <=> UpFailed(rec)
                       /\ rec.up = "ok"
                            => /\ rec.payload.status = "success"
                               /\ rec.payload.data.source = SourceOf(rec.op)

C17_Witness ==
    \E i \in 1..Len(log) :
        /\ log[i].op \in FacetOps
        /\ log[i].read = "error"
        /\ log[i].nUp = 1 /\ log[i].up = "ok"
        /\ log[i].wrote = "error"
        /\ log[i].outcome = "returned"
        /\ ~IsFallback(log[i].payload)

\* initialize() has run and its `await self.redis_client.ping()` raised: the
\* Redis client was made, the HTTP client never was.
PingFailed == redis_client = "open" /\ http_client = None

\* C18: when the cache store is unreachable at start-up, initialize still
\* completes with the service initialized, and the facet fetches made
\* afterwards are served from upstream, each cache access being a miss.
C18_StartsWithoutCache ==
    PingFailed
    => /\ initialized
       /\ \A i \in 1..Len(log) :
            log[i].op \in FacetOps
            => /\ log[i].outcome = "returned"
               /\ log[i].read \in {"miss", "error"}
               /\ log[i].nUp = 1

C18_Witness ==
    /\ PingFailed
    /\ ~initialized
    /\ \E i \in 1..Len(log) :
        /\ log[i].op \in FacetOps
        /\ log[i].outcome = "raised"
        /\ log[i].payload = NotInitialized
        /\ log[i].nUp = 0

-----------------------------------------------------------------------------
(* The comprehensive endpoint as a join of its four fetches, with the       *)
(* service's cleanup running under it (SpecBarrier).                        *)

BarrierFailures == {"http_500"}

NextBarrier ==
    \/ initialize
    \/ cleanup
    \/ get_comprehensive_data(Str_Nalanda)
    \/ \E t \in GatherSlots : task_start(t)
    \/ \E t \in GatherSlots : cache_get(t, FALSE)
    \/ \E t \in GatherSlots : http_get(t, BarrierFailures)
    \/ \E t \in GatherSlots : cache_set(t, FALSE)
    \/ gather_return

SpecBarrier == Init /\ [][NextBarrier]_vars

\* The aggregate's entry of the facet fetched in slot t.
FacetEntry(data, t) ==
    CASE t = 1 -> data.groundwater_level
      [] t = 2 -> data.water_quality
      [] t = 3 -> data.rainfall_data
      [] t = 4 -> data.drilling_recommendation

\* C19: the comprehensive endpoint answers only once all four fetches have
\* settled (returned or raised), in whatever order they completed; its
\* aggregate holds, for each facet, the payload its own fetch returned, or
\* nothing when that fetch raised, with the availability flag saying which:
\* an exception in one fetch does not cancel or hide the others' results.
C19_JoinBarrier ==
    Served
    => /\ \A t \in GatherSlots : /\ gather.results[t] # NoResult
                                 /\ tasks[t].pc = "idle"
       /\ Len(gather.order) = 4
       /\ \A t \in GatherSlots :
            LET result == gather.results[t]
            IN  /\ result.op = GatherOps[t]
                /\ Availability(t) = (result.outcome = "returned")
                /\ FacetEntry(gather.response.data, t)
                    = IF result.outcome = "returned" THEN result.payload ELSE NoPayload

\* One fetch raised, after two others had returned and before the last one
\* did; the fetches did not complete in the order of their slots.
C19_Witness ==
    /\ Served
    /\ gather.order = <<3, 1, 4, 2>>
    /\ gather.results[4].outcome = "raised"
    /\ \A t \in {1, 2, 3} : gather.results[t].outcome = "returned"
    /\ ~Availability(4)
    /\ \A t \in {1, 2, 3} : Availability(t)

-----------------------------------------------------------------------------
(* The retriever's bootstrap, run again after cleanup on a corpus that      *)
(* documents were added to (SpecBootstrap).                                 *)

NextBootstrap ==
    \/ rag_initialize
    \/ rag_cleanup
    \/ \E content \in AddContents, document_type \in AddTypes, language \in Languages :
            add_knowledge_document(content, document_type, language, SectionOf(document_type))

SpecBootstrap == InitRetriever /\ [][NextBootstrap]_vars

\* A step in which initialize ran to its end.
InitializeStep == ~rag.initialized /\ rag'.initialized

-----------------------------------------------------------------------------
(* The confidence of the retriever's answer (SpecSynth).                    *)

FromTryBranch(answer) == answer.response.template # "fallback"

-----------------------------------------------------------------------------
(* Confidence and sources of the chat pipeline's answers (SpecChat).        *)

\* C23: every query answered by AIService.process_query or
\* EnhancedAIService.process_query, on every path including the fallback
\* paths, gets a confidence strictly between 0 and 1 and a non-empty list
\* of sources.
C23_ConfidenceAndSources ==
    ai_service.last.pc = "done"
    => /\ ai_service.last.outcome = "returned"
       /\ ai_service.last.result.confidence \in 1..99
       /\ "sources" \in DOMAIN ai_service.last.result
       /\ Len(ai_service.last.result.sources) > 0

\* The same without the source list on the paths that return: the
\* confidence of every returned result is strictly between 0 and 1, and the
\* results of the try branches carry one to three sources.
ReturnedConfidenceInRange ==
    (ai_service.last.pc = "done" /\ ai_service.last.outcome = "returned")
    => /\ ai_service.last.result.confidence \in 1..99
       /\ ai_service.last.error = None
            => /\ "sources" \in DOMAIN ai_service.last.result
               /\ Len(ai_service.last.result.sources) \in 1..3

\* EnhancedAIService answers from its except branch: a confidence of 0.3
\* and no `sources` key at all.
C23_FallbackWithoutSources ==
    /\ ai_service.class = "EnhancedAIService"
    /\ ai_service.last.pc = "done"
    /\ ai_service.last.outcome = "returned"
    /\ ai_service.last.error # None
    /\ ai_service.last.result.confidence = 30
    /\ "sources" \notin DOMAIN ai_service.last.result

-----------------------------------------------------------------------------
(* Facet fetches for the empty district (SpecEmptyDistrict).                *)

EmptyDistricts == {<<>>, Str_Nalanda}

EmptyFailures == {"http_500"}

NextEmptyDistrict ==
    \/ initialize
    \/ \E d \in EmptyDistricts : get_groundwater_level(1, d, None, "post_monsoon")
    \/ \E d \in EmptyDistricts : get_water_quality(1, d)
    \/ \E d \in EmptyDistricts : get_rainfall_data(1, d, 0)
    \/ \E d \in EmptyDistricts : get_drilling_recommendation(1, d)
    \/ cache_get(1, TRUE)
    \/ http_get(1, EmptyFailures)
    \/ cache_set(1, TRUE)
    \/ Tick

SpecEmptyDistrict == Init /\ [][NextEmptyDistrict]_vars

\* C24: a facet fetch whose district is the empty string, made on an
\* initialized service, is rejected with an error before any cache read and
\* any upstream call.
C24_EmptyDistrictRejected ==
    \A i \in 1..Len(log) :
        (log[i].op \in FacetOps /\ log[i].district = <<>> /\ log[i].payload # NotInitialized)
        => /\ log[i].outcome = "raised"
           /\ log[i].read = "none"
           /\ log[i].nUp = 0

\* What the code does with the empty district on an initialized service: the
\* cache is read under the key "<facet>::...", and on a miss the upstream is
\* asked and the fallback payload (or the upstream's answer) is returned.
EmptyDistrictIsFetched ==
    \A i \in 1..Len(log) :
        (log[i].op \in FacetOps /\ log[i].district = <<>> /\ log[i].payload # NotInitialized)
        => /\ log[i].outcome = "returned"
           /\ log[i].read \in {"miss", "error", "hit"}
           /\ log[i].read # "hit" => log[i].nUp = 1

\* An initialized service fetches the empty district: cache miss, one
\* upstream request answered 404, the fallback payload returned.
C24_EmptyDistrictFetched ==
    /\ Len(log) >= 1
    /\ log[1].op = "groundwater_level"
    /\ log[1].district = <<>>
    /\ log[1].outcome = "returned"
    /\ log[1].read = "miss"
    /\ log[1].nUp = 1
    /\ log[1].up = "http_404"
    /\ log[1].payload = _get_fallback_data("groundwater_level", <<>>, log[1].payload.timestamp)

-----------------------------------------------------------------------------
(* Size and order of the search results (SpecRetriever).                    *)

SearchCutAtLimit ==
    /\ rag.searches > 0
    /\ rag.search.outcome = "returned"
    /\ rag.search.limit = 1
    /\ Len(rag.search.results) = 1
    /\ Len(SearchResults(rag.search.query, rag.search.language, TOP_K_RESULTS,
                         rag.search.score_threshold)) >= 2

-----------------------------------------------------------------------------
(* The template generator of the provider chain, on queries of each topic   *)
(* (SpecTemplate).                                                          *)

Str_quality == <<"q","u","a","l","i","t","y">>

Str_recharge == <<"r","e","c","h","a","r","g","e">>

TopicPrompts == {Str_quality, Str_recharge, Kw_level, Kw_borewell}

NextTemplate ==
    \/ \E prompt \in TopicPrompts, language \in Languages : generate_response(prompt, language)
    \/ openai_answers
    \/ openai_raises
    \/ anthropic_answers
    \/ anthropic_raises

SpecTemplate == InitLLM /\ [][NextTemplate]_vars

\* The chain answered the prompt from its template generator.
TemplateAnswered(prompt) ==
    /\ llm.pc = "idle"
    /\ llm.result.kind = "LLMResponse"
    /\ llm.result.model_used = "template_fallback"
    /\ llm.prompt = prompt

\* C26: the template generator gives a query whose only topic keyword is a
\* quality or a recharge keyword the quality or the recharge template, and
\* a water-level or borewell query its own template.
C26_TopicTemplates ==
    /\ TemplateAnswered(Str_quality) => llm.result.content.template = "quality"
    /\ TemplateAnswered(Str_recharge) => llm.result.content.template = "recharge"
    /\ TemplateAnswered(Kw_level) => llm.result.content.template = "level"
    /\ TemplateAnswered(Kw_borewell) => llm.result.content.template = "borewell"

\* What _generate_template_response tells apart: water level, borewell, and
\* everything else.
TemplateTopics ==
    /\ TemplateAnswered(Str_quality) => llm.result.content.template = "general"
    /\ TemplateAnswered(Str_recharge) => llm.result.content.template = "general"
    /\ TemplateAnswered(Kw_level) => llm.result.content.template = "level"
    /\ TemplateAnswered(Kw_borewell) => llm.result.content.template = "borewell"

\* A quality query answered with the general template.
C26_QualityGetsGeneral ==
    /\ TemplateAnswered(Str_quality)
    /\ llm.language = "en"
    /\ llm.result.content.template = "general"
    /\ llm.result.confidence = 60

-----------------------------------------------------------------------------
(* Reproducibility of AIService's response templates (SpecChat).  The       *)
(* language of a stored response is its `text` field.                       *)

\* C27: two invocations of the template generator with the same query,
\* language, context and location return identical response content.
C27_TemplateReproducible ==
    ai_service.class = "AIService"
    => \A u \in DOMAIN ai_service.conversation_history :
         \A i, j \in 1..Len(ai_service.conversation_history[u]) :
            LET a == ai_service.conversation_history[u][i]
                b == ai_service.conversation_history[u][j]
            IN  (a.query = b.query /\ a.response.text = b.response.text)
                => a.response = b.response

\* What is reproducible: the topic and the language of the response; which
\* of the topic's three responses is returned, and the numbers in it, are
\* random draws.
TopicReproducible ==
    ai_service.class = "AIService"
    => \A u \in DOMAIN ai_service.conversation_history :
         \A i, j \in 1..Len(ai_service.conversation_history[u]) :
            LET a == ai_service.conversation_history[u][i]
                b == ai_service.conversation_history[u][j]
            IN  (a.query = b.query /\ a.response.text = b.response.text)
                => a.response.kind = b.response.kind

\* The same user asked the same question in the same language twice and got
\* two different responses.
C27_SameQueryTwoResponses ==
    /\ ai_service.class = "AIService"
    /\ "u1" \in DOMAIN ai_service.conversation_history
    /\ Len(ai_service.conversation_history["u1"]) = 2
    /\ LET a == ai_service.conversation_history["u1"][1]
           b == ai_service.conversation_history["u1"][2]
       IN  /\ a.query = b.query
           /\ a.response.text = "en" /\ b.response.text = "en"
           /\ a.response.kind = b.response.kind
           /\ a.response.variant # b.response.variant

-----------------------------------------------------------------------------
(* Two fetches in flight at once (SpecOverlap): the route handlers are      *)
(* coroutines of one event loop, and a second request's handler runs while  *)
(* the first one awaits Redis or the upstream.                              *)

OverlapSlots == {1, 2}

OverlapDistricts == {Str_Nalanda, Str_nalanda}

OverlapFailures == {"http_500"}

NextOverlap ==
    \/ initialize
    \/ \E t \in OverlapSlots, d \in OverlapDistricts :
          get_groundwater_level(t, d, None, "post_monsoon")
    \/ \E t \in OverlapSlots : cache_get(t, FALSE)
    \/ \E t \in OverlapSlots : http_get(t, OverlapFailures)
    \/ \E t \in OverlapSlots : cache_set(t, FALSE)
    \/ Tick

SpecOverlap == Init /\ [][NextOverlap]_vars

\* The two calls of the log were in flight together, for one cache key, and
\* both read the cache before either had written it.
Overlapped ==
    /\ Len(log) = 2
    /\ log[1].outcome = "returned" /\ log[2].outcome = "returned"
    /\ log[1].startLen = 0 /\ log[2].startLen = 0
    /\ log[1].key = log[2].key
    /\ log[1].read = "miss" /\ log[2].read = "miss"

\* C28: of two fetches for one cache key that overlap on an empty cache, at
\* most one issues an upstream call, both return the same payload, and that
\* payload is the one left in the cache.
C28_SingleFlight ==
    Overlapped
    => /\ log[1].nUp + log[2].nUp <= 1
       /\ log[1].payload = log[2].payload
       /\ RedisGet(log[1].key) = json_dumps(log[1].payload)

\* What the code does: every fetch that misses issues its own upstream
\* request, and the cache holds what the last successful one wrote.
EachMissGoesUpstream ==
    Overlapped
    => /\ log[1].nUp = 1 /\ log[2].nUp = 1
       /\ (log[2].wrote = "ok" /\ now < log[2].exp)
            => RedisGet(log[2].key) = json_dumps(log[2].payload)

\* Both overlapping fetches went upstream, got different payloads, and the
\* cache holds the second's, not the one the first caller was given.
C28_TwoUpstreamCalls ==
    /\ Overlapped
    /\ log[1].nUp = 1 /\ log[2].nUp = 1
    /\ log[1].wrote = "ok" /\ log[2].wrote = "ok"
    /\ log[1].payload # log[2].payload
    /\ RedisGet(log[1].key) = json_dumps(log[2].payload)
    /\ RedisGet(log[1].key) # json_dumps(log[1].payload)

-----------------------------------------------------------------------------
(* Overlapping process_query calls of one user (SpecChat).                  *)

\* The coroutine of slot s ends its sleep, appends its exchange and returns.
Stores(s) ==
    /\ ai_service.class = "AIService"
    /\ ai_service.slots[s].pc = "sleeping"
    /\ ai_service'.slots[s].pc = "idle"
    /\ ai_service'.last.outcome = "returned"

\* C29: when two process_query calls of one user overlap, their exchanges
\* are stored in the order the queries were received: the call that stores
\* while the other still sleeps is the one received first.
C29_StoredInReceiptOrder ==
    [][\A s, other \in ChatSlots :
          (/\ Stores(s)
           /\ other # s
           /\ ai_service.slots[other].pc = "sleeping"
           /\ ai_service.slots[other].user_id = ai_service.slots[s].user_id)
          => ai_service.slots[s].received < ai_service.slots[other].received]_vars

\* What holds: each append is one step that puts the call's own exchange
\* at the end of the user's list, so the list is in completion order.
StoredInCompletionOrder ==
    [][\A s \in ChatSlots :
          Stores(s)
          => LET u == ai_service.slots[s].user_id
                 old == ai_service.conversation_history[u]
                 new == ai_service'.conversation_history[u]
             IN  /\ Len(new) = Len(old) + 1
                 /\ SubSeq(new, 1, Len(old)) = old
                 /\ new[Len(new)].query = ai_service.slots[s].query]_vars

\* The query received first still sleeps while the exchange of the query
\* received second, of the same user, is already stored.
C29_LaterQueryStoredFirst ==
    /\ ai_service.class = "AIService"
    /\ ai_service.queries = 2
    /\ \E s \in ChatSlots :
          /\ ai_service.slots[s].pc = "sleeping"
          /\ ai_service.slots[s].received = 1
          /\ ai_service.slots[s].user_id = "u1"
          /\ ai_service.slots[s].query = <<"B","o","r","e","w","e","l","l">>
    /\ "u1" \in DOMAIN ai_service.conversation_history
    /\ Len(ai_service.conversation_history["u1"]) = 1
    /\ ai_service.conversation_history["u1"][1].query = <<"hi_bhujal">>

-----------------------------------------------------------------------------
(* The operations on a service that is not initialized (Spec, in which      *)
(* `initialized` never goes back to FALSE).                                 *)

\* C30: while the service is not initialized, every data operation (the four
\* facet fetches and get_available_districts) raises the 'not initialized'
\* error without any cache read, cache write or upstream call.
C30_NoClientUseUninitialized ==
    ~initialized
    => /\ \A t \in DOMAIN tasks : tasks[t].pc = "idle"
       /\ \A i \in 1..Len(log) :
              /\ log[i].outcome = "raised"
              /\ log[i].payload = NotInitialized
              /\ log[i].read = "none"
              /\ log[i].nUp = 0
              /\ log[i].wrote = "no"

\* What holds: the four facet fetches raise before they use a client.
FacetFetchesRaiseUninitialized ==
    ~initialized
    => /\ \A t \in DOMAIN tasks : tasks[t].pc # "idle" => tasks[t].op = "available_districts"
       /\ \A i \in 1..Len(log) :
              log[i].op \in FacetOps
              => /\ log[i].outcome = "raised"
                 /\ log[i].payload = NotInitialized
                 /\ log[i].read = "none"
                 /\ log[i].nUp = 0
                 /\ log[i].wrote = "no"

\* After an initialize that failed at the ping, get_available_districts
\* read the cache through the Redis client, went on to the HTTP client
\* (never built) and returned the fallback list.
C30_DistrictsOnFailedInitialize ==
    /\ ~initialized
    /\ redis_client = "open"
    /\ http_client = None
    /\ Len(log) >= 1
    /\ log[1].op = "available_districts"
    /\ log[1].outcome = "returned"
    /\ log[1].read = "miss"
    /\ log[1].up = "client_error"
    /\ log[1].payload = FallbackDistricts

====
